---- MODULE Spec2Model ----
(***************************************************************************)
(* M32 Business Intelligence Copilot, browser front-end.                   *)
(*                                                                         *)
(* Three parts are modelled:                                               *)
(*   - frontend/src/utils/chatTitles.ts, the title heuristic, as operators *)
(*     over character sequences (TitleSpec applies them to bounded inputs);*)
(*   - the chat page (ChatPage) and the dashboard's New Chat, as a state   *)
(*     machine over browser tabs and the session store behind chatApi      *)
(*     (Spec).  TurnSpec and HungRenameSpec follow one tab under fairness  *)
(*     of the answers to its requests, HistorySpec one tab whose history   *)
(*     is traversed;                                                       *)
(*   - AuthContext, the route guard of App and the pages' sign-in, sign-out*)
(*     and profile handlers, over one document and its localStorage        *)
(*     (AuthSpec).                                                         *)
(*                                                                         *)
(* A JavaScript string is a sequence of one-character strings.  A value a  *)
(* title function returns is a record [kind, pre, lit]: kind "string"      *)
(* denotes the text pre \o lit (pre a character sequence computed from the *)
(* message, lit a literal of the source), kind "undefined" is JavaScript's *)
(* undefined.                                                              *)
(***************************************************************************)
EXTENDS Integers, Sequences, FiniteSets, TLC

(***************************************************************************)
(* Bounds of the model.                                                    *)
(***************************************************************************)
\* Math.random() is drawn from {0/RandN, ..., (RandN-1)/RandN}.
RandN == 2
\* Messages given to the title functions are at most MaxWords vocabulary words.
MaxWords == 2

(***************************************************************************)
(* Characters and the String.prototype methods the source uses.            *)
(***************************************************************************)
UpperLetters == <<"A","B","C","D","E","F","G","H","I","J","K","L","M","N","O","P","Q","R","S","T","U","V","W","X","Y","Z">>

LowerLetters == <<"a","b","c","d","e","f","g","h","i","j","k","l","m","n","o","p","q","r","s","t","u","v","w","x","y","z">>

Digits == <<"0","1","2","3","4","5","6","7","8","9">>

Range(f) == {f[i] : i \in DOMAIN f}

IsUpper(c) == c \in Range(UpperLetters)

IsLetter(c) == c \in Range(UpperLetters) \cup Range(LowerLetters)

\* \w of a JavaScript regular expression
IsWordChar(c) == IsLetter(c) \/ c \in Range(Digits) \/ c = "_"

\* \s of a JavaScript regular expression, and what trim() strips
IsSpace(c) == c \in {" ", "\t", "\n"}

LowerChar(c) ==
  IF IsUpper(c) THEN LowerLetters[CHOOSE i \in 1..26 : UpperLetters[i] = c] ELSE c

UpperChar(c) ==
  IF c \in Range(LowerLetters)
    THEN UpperLetters[CHOOSE i \in 1..26 : LowerLetters[i] = c] ELSE c

toLowerCase(s) == [i \in 1..Len(s) |-> LowerChar(s[i])]

\* s.includes(k)
includes(s, k) ==
  \E i \in 0..(Len(s) - Len(k)) : SubSeq(s, i + 1, i + Len(k)) = k

\* s.trim()
trim(s) ==
  IF \A i \in 1..Len(s) : IsSpace(s[i]) THEN <<>>
  ELSE LET a == CHOOSE i \in 1..Len(s) :
                  ~IsSpace(s[i]) /\ \A j \in 1..(i - 1) : IsSpace(s[j])
           b == CHOOSE i \in 1..Len(s) :
                  ~IsSpace(s[i]) /\ \A j \in (i + 1)..Len(s) : IsSpace(s[j])
       IN  SubSeq(s, a, b)

\* s.split(' '): the pieces between single spaces, empty pieces included
RECURSIVE split(_)
split(s) ==
  IF \A i \in 1..Len(s) : s[i] # " " THEN <<s>>
  ELSE LET i == CHOOSE k \in 1..Len(s) :
                  s[k] = " " /\ \A j \in 1..(k - 1) : s[j] # " "
       IN  <<SubSeq(s, 1, i - 1)>> \o split(SubSeq(s, i + 1, Len(s)))

\* words.join(' ')
RECURSIVE join(_)
join(words) ==
  IF Len(words) = 0 THEN <<>>
  ELSE IF Len(words) = 1 THEN words[1]
  ELSE words[1] \o <<" ">> \o join(Tail(words))

\* words.filter(keep), keep given as the set of kept indices
RECURSIVE filterSeq(_, _)
filterSeq(words, keep) ==
  IF Len(words) = 0 THEN <<>>
  ELSE LET rest == filterSeq(Tail(words), {i - 1 : i \in keep \ {1}})
       IN  IF 1 \in keep THEN <<words[1]>> \o rest ELSE rest

(***************************************************************************)
(* JavaScript values returned by the title functions.                      *)
(***************************************************************************)
Str(lit) == [kind |-> "string", pre |-> <<>>, lit |-> lit]

Chars(pre, lit) == [kind |-> "string", pre |-> pre, lit |-> lit]

Undefined == [kind |-> "undefined", pre |-> <<>>, lit |-> ""]

\* null, which extractIndustry returns when it finds no industry
Null == [kind |-> "null", pre |-> <<>>, lit |-> ""]

\* the string[] extractTopics returns, its elements in pre
TopicList(topics) == [kind |-> "array", pre |-> topics, lit |-> ""]

\* typeof v === 'string' && v.length > 0
IsNonEmptyString(v) == v.kind = "string" /\ Len(v.pre) + Len(v.lit) > 0

\* Math.floor(Math.random() * n) for Math.random() = rnd / RandN
randomIndex(rnd, n) == (rnd * n) \div RandN

\* arr[Math.floor(Math.random() * arr.length)] on an array of string literals
pickRandom(arr, rnd) == Str(arr[randomIndex(rnd, Len(arr)) + 1])

(***************************************************************************)
(* chatTitles.ts                                                           *)
(***************************************************************************)
titleTemplates_market_research ==
  << "Market Analysis", "Industry Research", "Market Trends",
     "Market Insights", "Industry Overview" >>

titleTemplates_competitor_analysis ==
  << "Competitor Analysis", "Competitive Intelligence", "Competition Research",
     "Market Competition", "Competitor Insights" >>

titleTemplates_business_strategy ==
  << "Business Strategy", "Strategic Planning", "Growth Strategy",
     "Business Planning", "Strategic Analysis" >>

titleTemplates_general_business ==
  << "Business Discussion", "Business Consultation", "Strategic Advice",
     "Business Insights", "Business Planning" >>

\* titleTemplates.industry_specific: its own properties, key and title array
industry_specific ==
  << [key |-> <<"t","e","c","h","n","o","l","o","g","y">>,
      titles |-> <<"Tech Strategy", "Technology Analysis", "Tech Market Research">>],
     [key |-> <<"h","e","a","l","t","h","c","a","r","e">>,
      titles |-> <<"Healthcare Strategy", "Medical Industry Analysis", "Healthcare Insights">>],
     [key |-> <<"f","i","n","a","n","c","e">>,
      titles |-> <<"Financial Strategy", "Fintech Analysis", "Financial Planning">>],
     [key |-> <<"r","e","t","a","i","l">>,
      titles |-> <<"Retail Strategy", "E-commerce Analysis", "Retail Insights">>],
     [key |-> <<"m","a","n","u","f","a","c","t","u","r","i","n","g">>,
      titles |-> <<"Manufacturing Strategy", "Industrial Analysis", "Production Planning">>],
     [key |-> <<"e","d","u","c","a","t","i","o","n">>,
      titles |-> <<"EdTech Strategy", "Education Analysis", "Learning Solutions">>],
     [key |-> <<"c","o","n","s","u","l","t","i","n","g">>,
      titles |-> <<"Consulting Strategy", "Professional Services", "Advisory Planning">>] >>

\* The property names every object literal inherits from Object.prototype
\* that a lower-cased string can equal: titleTemplates.industry_specific[k]
\* is the inherited (truthy, non-array) value for them.
InheritedKeys == { <<"c","o","n","s","t","r","u","c","t","o","r">>, <<"_","_","p","r","o","t","o","_","_">> }

\* titleTemplates.industry_specific[industry]: "array" with the titles for an
\* own property, "object" for an inherited one, "undefined" otherwise.
industryTemplatesOf(industry) ==
  IF \E i \in 1..Len(industry_specific) : industry_specific[i].key = industry
    THEN [kind |-> "array",
          titles |-> industry_specific[
                       CHOOSE i \in 1..Len(industry_specific) :
                         industry_specific[i].key = industry].titles]
  ELSE IF industry \in InheritedKeys
    THEN [kind |-> "object", titles |-> <<>>]
  ELSE [kind |-> "undefined", titles |-> <<>>]

\* titleTemplates[topic]: the arrays of the topic keys titleTemplates has
topicTemplatesOf(topic) ==
  CASE topic = "market_research" -> titleTemplates_market_research
    [] topic = "competitor_analysis" -> titleTemplates_competitor_analysis
    [] topic = "business_strategy" -> titleTemplates_business_strategy
    [] topic = "general_business" -> titleTemplates_general_business
    [] OTHER -> <<>>

\* titleTemplates with a title array for business_strategy only
hasTopicTemplates_strategyOnly(topic) == topic = "business_strategy"

\* Array.isArray(titleTemplates[topic])
hasTopicTemplates(topic) ==
  topic \in {"market_research", "competitor_analysis", "business_strategy",
             "general_business"}

\* extractTopics matching whole lower-cased words instead of substrings
extractTopics_wholeWords(message) ==
  LET words == Range(split(toLowerCase(message)))
      t1 == IF <<"m","a","r","k","e","t">> \in words \/ <<"i","n","d","u","s","t","r","y">> \in words
              THEN <<"market_research">> ELSE <<>>
      t2 == IF <<"c","o","m","p","e","t","i","t","o","r">> \in words \/ <<"c","o","m","p","e","t","i","t","i","o","n">> \in words
              THEN <<"competitor_analysis">> ELSE <<>>
      t3 == IF <<"s","t","r","a","t","e","g","y">> \in words \/ <<"p","l","a","n">> \in words
              THEN <<"business_strategy">> ELSE <<>>
      t4 == IF <<"s","t","a","r","t","u","p">> \in words \/ <<"l","a","u","n","c","h">> \in words
              THEN <<"startup">> ELSE <<>>
      t5 == IF <<"m","a","r","k","e","t","i","n","g">> \in words \/ <<"b","r","a","n","d">> \in words
              THEN <<"marketing">> ELSE <<>>
  IN  t1 \o t2 \o t3 \o t4 \o t5

\* extractTopics with the five tests chained by else: only the first
\* matching topic is recorded
extractTopics_firstOnly(message) ==
  LET lowerMessage == toLowerCase(message)
  IN  IF includes(lowerMessage, <<"m","a","r","k","e","t">>) \/ includes(lowerMessage, <<"i","n","d","u","s","t","r","y">>)
        THEN <<"market_research">>
      ELSE IF includes(lowerMessage, <<"c","o","m","p","e","t","i","t","o","r">>) \/ includes(lowerMessage, <<"c","o","m","p","e","t","i","t","i","o","n">>)
        THEN <<"competitor_analysis">>
      ELSE IF includes(lowerMessage, <<"s","t","r","a","t","e","g","y">>) \/ includes(lowerMessage, <<"p","l","a","n">>)
        THEN <<"business_strategy">>
      ELSE IF includes(lowerMessage, <<"s","t","a","r","t","u","p">>) \/ includes(lowerMessage, <<"l","a","u","n","c","h">>)
        THEN <<"startup">>
      ELSE IF includes(lowerMessage, <<"m","a","r","k","e","t","i","n","g">>) \/ includes(lowerMessage, <<"b","r","a","n","d">>)
        THEN <<"marketing">>
      ELSE <<>>

extractTopics(message) ==
  LET lowerMessage == toLowerCase(message)
      t1 == IF includes(lowerMessage, <<"m","a","r","k","e","t">>) \/ includes(lowerMessage, <<"i","n","d","u","s","t","r","y">>)
              THEN <<"market_research">> ELSE <<>>
      t2 == IF includes(lowerMessage, <<"c","o","m","p","e","t","i","t","o","r">>) \/ includes(lowerMessage, <<"c","o","m","p","e","t","i","t","i","o","n">>)
              THEN <<"competitor_analysis">> ELSE <<>>
      t3 == IF includes(lowerMessage, <<"s","t","r","a","t","e","g","y">>) \/ includes(lowerMessage, <<"p","l","a","n">>)
              THEN <<"business_strategy">> ELSE <<>>
      t4 == IF includes(lowerMessage, <<"s","t","a","r","t","u","p">>) \/ includes(lowerMessage, <<"l","a","u","n","c","h">>)
              THEN <<"startup">> ELSE <<>>
      t5 == IF includes(lowerMessage, <<"m","a","r","k","e","t","i","n","g">>) \/ includes(lowerMessage, <<"b","r","a","n","d">>)
              THEN <<"marketing">> ELSE <<>>
  IN  t1 \o t2 \o t3 \o t4 \o t5

\* the industries array of extractIndustry, in its order
industries ==
  << <<"t","e","c","h","n","o","l","o","g","y">>, <<"t","e","c","h">>, <<"s","o","f","t","w","a","r","e">>, <<"s","a","a","s">>,
     <<"h","e","a","l","t","h","c","a","r","e">>, <<"m","e","d","i","c","a","l">>, <<"h","e","a","l","t","h">>,
     <<"f","i","n","a","n","c","e">>, <<"f","i","n","a","n","c","i","a","l">>, <<"f","i","n","t","e","c","h">>, <<"b","a","n","k","i","n","g">>,
     <<"r","e","t","a","i","l">>, <<"e","-","c","o","m","m","e","r","c","e">>, <<"e","c","o","m","m","e","r","c","e">>,
     <<"m","a","n","u","f","a","c","t","u","r","i","n","g">>, <<"i","n","d","u","s","t","r","i","a","l">>,
     <<"e","d","u","c","a","t","i","o","n">>, <<"e","d","t","e","c","h">>,
     <<"c","o","n","s","u","l","t","i","n","g">>, <<"p","r","o","f","e","s","s","i","o","n","a","l"," ","s","e","r","v","i","c","e","s">>,
     <<"r","e","a","l"," ","e","s","t","a","t","e">>, <<"c","o","n","s","t","r","u","c","t","i","o","n">>,
     <<"h","o","s","p","i","t","a","l","i","t","y">>, <<"t","r","a","v","e","l">>,
     <<"e","n","e","r","g","y">>, <<"r","e","n","e","w","a","b","l","e">> >>

\* the normalisation inside the loop of extractIndustry
normalizeIndustry(industry) ==
  IF industry \in {<<"t","e","c","h">>, <<"s","o","f","t","w","a","r","e">>, <<"s","a","a","s">>} THEN <<"t","e","c","h","n","o","l","o","g","y">>
  ELSE IF industry \in {<<"m","e","d","i","c","a","l">>, <<"h","e","a","l","t","h">>} THEN <<"h","e","a","l","t","h","c","a","r","e">>
  ELSE IF industry \in {<<"f","i","n","a","n","c","i","a","l">>, <<"f","i","n","t","e","c","h">>, <<"b","a","n","k","i","n","g">>} THEN <<"f","i","n","a","n","c","e">>
  ELSE IF industry \in {<<"e","-","c","o","m","m","e","r","c","e">>, <<"e","c","o","m","m","e","r","c","e">>} THEN <<"r","e","t","a","i","l">>
  ELSE IF industry = <<"i","n","d","u","s","t","r","i","a","l">> THEN <<"m","a","n","u","f","a","c","t","u","r","i","n","g">>
  ELSE IF industry = <<"e","d","t","e","c","h">> THEN <<"e","d","u","c","a","t","i","o","n">>
  ELSE IF industry = <<"p","r","o","f","e","s","s","i","o","n","a","l"," ","s","e","r","v","i","c","e","s">> THEN <<"c","o","n","s","u","l","t","i","n","g">>
  ELSE industry

\* A business context is [present, industry]; an absent context and a context
\* without industry (or with '') both have a falsy businessContext?.industry.
NoContext == [present |-> FALSE, industry |-> <<>>]

Context(industry) == [present |-> TRUE, industry |-> industry]

\* extractIndustry scanning the message before it looks at the context
extractIndustry_messageFirst(message, businessContext) ==
  LET lowerMessage == toLowerCase(message)
      found == {i \in 1..Len(industries) : includes(lowerMessage, industries[i])}
  IN  IF found # {}
        THEN normalizeIndustry(
               industries[CHOOSE i \in found : \A j \in found : i <= j])
      ELSE IF businessContext.present /\ businessContext.industry # <<>>
        THEN toLowerCase(businessContext.industry)
      ELSE <<>>

\* extractIndustry: the industry as a character sequence, <<>> for null
extractIndustry(message, businessContext) ==
  LET lowerMessage == toLowerCase(message)
      found == {i \in 1..Len(industries) : includes(lowerMessage, industries[i])}
  IN  IF businessContext.present /\ businessContext.industry # <<>>
        THEN toLowerCase(businessContext.industry)
      ELSE IF found # {}
        THEN normalizeIndustry(
               industries[CHOOSE i \in found : \A j \in found : i <= j])
      ELSE <<>>

\* End of the maximal run of letters that starts at position i (i - 1 if none)
RECURSIVE letterRunEnd(_, _)
letterRunEnd(s, i) ==
  IF i <= Len(s) /\ IsLetter(s[i]) THEN letterRunEnd(s, i + 1) ELSE i - 1

\* End of the maximal run of \s that starts at position i (i - 1 if none)
RECURSIVE spaceRunEnd(_, _)
spaceRunEnd(s, i) ==
  IF i <= Len(s) /\ IsSpace(s[i]) THEN spaceRunEnd(s, i + 1) ELSE i - 1

\* \b between positions e and e + 1, position e holding a word character
boundaryAfter(s, e) == e = Len(s) \/ ~IsWordChar(s[e + 1])

\* [A-Z][a-zA-Z]+ can start at position i
capitalWordAt(s, i) ==
  i + 1 <= Len(s) /\ IsUpper(s[i]) /\ IsLetter(s[i + 1])

\* (?:\s+[A-Z][a-zA-Z]+)*\b after a capitalized word ending at e: the end of
\* the match, greedy with backtracking, 0 if the match fails
RECURSIVE groupsEnd(_, _)
groupsEnd(s, e) ==
  LET w == spaceRunEnd(s, e + 1)
      more == w > e /\ capitalWordAt(s, w + 1)
      further == IF more THEN groupsEnd(s, letterRunEnd(s, w + 2)) ELSE 0
  IN  IF further # 0 THEN further
      ELSE IF boundaryAfter(s, e) THEN e
      ELSE 0

\* /\b([A-Z][a-zA-Z]+(?:\s+[A-Z][a-zA-Z]+)*)\b/ tried at position i: the end
\* of the match, 0 if there is none
matchEndAt(s, i) ==
  IF (i = 1 \/ ~IsWordChar(s[i - 1])) /\ capitalWordAt(s, i)
    THEN groupsEnd(s, letterRunEnd(s, i + 1))
    ELSE 0

\* firstMessage.match(/.../g): companyMatch[0], or <<>> when match gives null
companyMatch(s) ==
  LET starts == {i \in 1..Len(s) : matchEndAt(s, i) # 0}
  IN  IF starts = {} THEN <<>>
      ELSE LET i == CHOOSE k \in starts : \A j \in starts : k <= j
           IN  SubSeq(s, i, matchEndAt(s, i))

\* the proper-noun branch matching the lower-cased message, where the
\* pattern finds nothing
titleFromCompanyOrGeneral_lowerMessage(firstMessage, topics, rnd) ==
  LET companyName == companyMatch(toLowerCase(firstMessage))
  IN  IF companyName # <<>>
        THEN IF \E i \in 1..Len(topics) : topics[i] = "competitor_analysis"
               THEN Chars(companyName, " Analysis")
             ELSE IF \E i \in 1..Len(topics) : topics[i] = "market_research"
               THEN Chars(companyName, " Market Research")
             ELSE Chars(companyName, " Strategy")
      ELSE pickRandom(titleTemplates_general_business, rnd)

\* the proper-noun branch and the general_business fallback
titleFromCompanyOrGeneral(firstMessage, topics, rnd) ==
  LET companyName == companyMatch(firstMessage)
  IN  IF companyName # <<>>
        THEN IF \E i \in 1..Len(topics) : topics[i] = "competitor_analysis"
               THEN Chars(companyName, " Analysis")
             ELSE IF \E i \in 1..Len(topics) : topics[i] = "market_research"
               THEN Chars(companyName, " Market Research")
             ELSE Chars(companyName, " Strategy")
      ELSE pickRandom(titleTemplates_general_business, rnd)

\* the topic branch and what follows it
titleFromTopics(firstMessage, topics, rnd) ==
  IF Len(topics) > 0 /\ hasTopicTemplates(topics[1])
    THEN pickRandom(topicTemplatesOf(topics[1]), rnd)
    ELSE titleFromCompanyOrGeneral(firstMessage, topics, rnd)

\* industryTemplates[Math.floor(Math.random() * industryTemplates.length)]
pickIndustryTitle(industryTemplates, rnd) ==
  IF industryTemplates.kind = "array"
    THEN pickRandom(industryTemplates.titles, rnd)
    ELSE Undefined

\* generateSmartChatTitle with the topic branch tried before the industry branch
generateSmartChatTitle_topicsFirst(firstMessage, businessContext, rnd) ==
  LET topics == extractTopics(firstMessage)
      industry == extractIndustry(firstMessage, businessContext)
      industryTemplates == industryTemplatesOf(industry)
  IN  IF Len(topics) > 0 /\ hasTopicTemplates(topics[1])
        THEN pickRandom(topicTemplatesOf(topics[1]), rnd)
      ELSE IF industry # <<>> /\ industryTemplates.kind # "undefined"
        THEN pickIndustryTitle(industryTemplates, rnd)
      ELSE titleFromCompanyOrGeneral(firstMessage, topics, rnd)

generateSmartChatTitle(firstMessage, businessContext, rnd) ==
  LET topics == extractTopics(firstMessage)
      industry == extractIndustry(firstMessage, businessContext)
      industryTemplates == industryTemplatesOf(industry)
  IN  IF industry # <<>> /\ industryTemplates.kind # "undefined"
        THEN pickIndustryTitle(industryTemplates, rnd)
        ELSE titleFromTopics(firstMessage, topics, rnd)

\* the stop words of generateTitleFromContent
stopWords ==
  { <<"w","h","a","t">>, <<"h","o","w">>, <<"w","h","e","n">>, <<"w","h","e","r","e">>, <<"w","h","y">>, <<"t","h","e">>, <<"a","n","d">>, <<"b","u","t">>,
    <<"f","o","r">>, <<"w","i","t","h">> }

\* the content patterns with the pricing test moved to the front
contentPatternTitle_pricingFirst(lowerMessage) ==
  IF includes(lowerMessage, <<"p","r","i","c","i","n","g">>)
    THEN "Pricing Strategy"
  ELSE IF includes(lowerMessage, <<"w","h","a","t">>) /\ includes(lowerMessage, <<"t","r","e","n","d">>)
    THEN "Market Trends Analysis"
  ELSE IF includes(lowerMessage, <<"w","h","o">>) /\ includes(lowerMessage, <<"c","o","m","p","e","t","i","t","o","r">>)
    THEN "Competitor Identification"
  ELSE IF includes(lowerMessage, <<"h","o","w">>) /\ includes(lowerMessage, <<"g","r","o","w">>)
    THEN "Growth Strategy"
  ELSE IF includes(lowerMessage, <<"a","n","a","l","y","z","e">>) /\ includes(lowerMessage, <<"m","a","r","k","e","t">>)
    THEN "Market Analysis"
  ELSE IF includes(lowerMessage, <<"b","u","s","i","n","e","s","s"," ","p","l","a","n">>)
    THEN "Business Planning"
  ELSE IF includes(lowerMessage, <<"g","o","-","t","o","-","m","a","r","k","e","t">>) \/ includes(lowerMessage, <<"g","t","m">>)
    THEN "Go-to-Market Strategy"
  ELSE IF includes(lowerMessage, <<"c","u","s","t","o","m","e","r">>)
    THEN "Customer Strategy"
  ELSE IF includes(lowerMessage, <<"r","e","v","e","n","u","e">>)
    THEN "Revenue Strategy"
  ELSE IF includes(lowerMessage, <<"f","u","n","d","i","n","g">>) \/ includes(lowerMessage, <<"i","n","v","e","s","t","m","e","n","t">>)
    THEN "Funding Strategy"
  ELSE ""

\* the fixed content patterns of generateTitleFromContent, "" if none matches
contentPatternTitle(lowerMessage) ==
  IF includes(lowerMessage, <<"w","h","a","t">>) /\ includes(lowerMessage, <<"t","r","e","n","d">>)
    THEN "Market Trends Analysis"
  ELSE IF includes(lowerMessage, <<"w","h","o">>) /\ includes(lowerMessage, <<"c","o","m","p","e","t","i","t","o","r">>)
    THEN "Competitor Identification"
  ELSE IF includes(lowerMessage, <<"h","o","w">>) /\ includes(lowerMessage, <<"g","r","o","w">>)
    THEN "Growth Strategy"
  ELSE IF includes(lowerMessage, <<"a","n","a","l","y","z","e">>) /\ includes(lowerMessage, <<"m","a","r","k","e","t">>)
    THEN "Market Analysis"
  ELSE IF includes(lowerMessage, <<"b","u","s","i","n","e","s","s"," ","p","l","a","n">>)
    THEN "Business Planning"
  ELSE IF includes(lowerMessage, <<"g","o","-","t","o","-","m","a","r","k","e","t">>) \/ includes(lowerMessage, <<"g","t","m">>)
    THEN "Go-to-Market Strategy"
  ELSE IF includes(lowerMessage, <<"p","r","i","c","i","n","g">>)
    THEN "Pricing Strategy"
  ELSE IF includes(lowerMessage, <<"c","u","s","t","o","m","e","r">>)
    THEN "Customer Strategy"
  ELSE IF includes(lowerMessage, <<"r","e","v","e","n","u","e">>)
    THEN "Revenue Strategy"
  ELSE IF includes(lowerMessage, <<"f","u","n","d","i","n","g">>) \/ includes(lowerMessage, <<"i","n","v","e","s","t","m","e","n","t">>)
    THEN "Funding Strategy"
  ELSE ""

\* message.split(' ').filter(...): the significant words
significantWords(message) ==
  LET all == split(message)
  IN  filterSeq(all, {i \in 1..Len(all) :
                        Len(all[i]) > 3 /\ toLowerCase(all[i]) \notin stopWords})

\* generateTitleFromContent with the significant words tried before the
\* content patterns
generateTitleFromContent_wordsFirst(message, rnd) ==
  LET fixed == contentPatternTitle(toLowerCase(message))
      words == significantWords(message)
  IN  IF Len(words) >= 2
        THEN LET title == join(SubSeq(words, 1, IF Len(words) < 3 THEN Len(words) ELSE 3))
             IN  Chars(<<UpperChar(title[1])>> \o Tail(title), "")
      ELSE IF fixed # "" THEN Str(fixed)
      ELSE generateSmartChatTitle(message, NoContext, rnd)

generateTitleFromContent(message, rnd) ==
  LET fixed == contentPatternTitle(toLowerCase(message))
      words == significantWords(message)
  IN  IF fixed # "" THEN Str(fixed)
      ELSE IF Len(words) >= 2
        THEN LET title == join(SubSeq(words, 1, IF Len(words) < 3 THEN Len(words) ELSE 3))
             IN  Chars(<<UpperChar(title[1])>> \o Tail(title), "")
      ELSE generateSmartChatTitle(message, NoContext, rnd)

creativeTitles ==
  << "Business Insights Session", "Strategic Planning Chat",
     "Market Intelligence Brief", "Competitive Analysis Deep Dive",
     "Growth Strategy Workshop", "Business Intelligence Consultation",
     "Strategic Advisory Session", "Market Research Discussion",
     "Business Development Chat", "Innovation Strategy Talk",
     "Digital Transformation Planning", "Revenue Optimization Session",
     "Customer Strategy Workshop", "Operational Excellence Planning",
     "Investment Strategy Discussion" >>

\* getRandomCreativeTitle without Math.floor: a fractional index reads
\* undefined
getRandomCreativeTitle_noFloor(rnd) ==
  IF (rnd * Len(creativeTitles)) % RandN = 0
    THEN Str(creativeTitles[randomIndex(rnd, Len(creativeTitles)) + 1])
    ELSE Undefined

getRandomCreativeTitle(rnd) == pickRandom(creativeTitles, rnd)

(***************************************************************************)
(* Inputs of the title functions.                                          *)
(***************************************************************************)
Vocabulary ==
  { <<"m","a","r","k","e","t">>, <<"c","o","m","p","e","t","i","t","o","r","s">>, <<"p","l","a","n">>, <<"l","a","u","n","c","h">>, <<"b","r","a","n","d">>, <<"f","i","n","t","e","c","h">>,
    <<"b","a","n","k","i","n","g">>, <<"r","e","t","a","i","l">>, <<"A","c","m","e">>, <<"C","o","r","p">>, <<"h","e","l","l","o">>, <<"W","h","a","t">>, <<"t","r","e","n","d","s">>,
    <<"p","r","i","c","i","n","g">>, <<"I">> }

MsgMarketTrendsFintech == <<"W","h","a","t"," ","a","r","e"," ","t","h","e"," ","m","a","r","k","e","t"," ","t","r","e","n","d","s"," ","i","n"," ","f","i","n","t","e","c","h","?">>

MsgCompareCompetitors == <<"H","o","w"," ","d","o"," ","I"," ","c","o","m","p","a","r","e"," ","a","g","a","i","n","s","t"," ","m","y"," ","c","o","m","p","e","t","i","t","o","r","s","?">>

MsgMarketingPlan == <<"M","a","r","k","e","t","i","n","g"," ","p","l","a","n">>

MsgBusinessPlanAcme == <<"b","u","s","i","n","e","s","s"," ","p","l","a","n"," ","f","o","r"," ","A","c","m","e"," ","C","o","r","p">>

\* the entries of industries that the normalisation maps to another name
AliasKeywords ==
  { industries[i] : i \in { j \in 1..Len(industries) :
                              normalizeIndustry(industries[j]) # industries[j] } }

\* messages that mention one alias keyword: alone, and after another word
AliasMessages ==
  AliasKeywords \cup { <<"h","e","l","l","o"," ">> \o k : k \in AliasKeywords }

\* messages that match several content patterns at once, or the later ones
PatternMessages ==
  { <<"W","h","a","t"," ","t","r","e","n","d","s"," ","j","u","s","t","i","f","y"," ","o","u","r"," ","p","r","i","c","i","n","g","?">>,
    <<"W","h","o"," ","a","r","e"," ","m","y"," ","c","o","m","p","e","t","i","t","o","r","s"," ","a","n","d"," ","h","o","w"," ","d","o"," ","w","e"," ","g","r","o","w"," ","r","e","v","e","n","u","e","?">>,
    <<"H","o","w"," ","c","a","n"," ","w","e"," ","g","r","o","w"," ","c","u","s","t","o","m","e","r"," ","r","e","v","e","n","u","e">>,
    <<"A","n","a","l","y","z","e"," ","t","h","e"," ","m","a","r","k","e","t"," ","f","o","r"," ","o","u","r"," ","b","u","s","i","n","e","s","s"," ","p","l","a","n">>,
    <<"b","u","s","i","n","e","s","s"," ","p","l","a","n"," ","w","i","t","h"," ","g","o","-","t","o","-","m","a","r","k","e","t"," ","p","r","i","c","i","n","g">>,
    <<"G","T","M"," ","p","r","i","c","i","n","g"," ","f","o","r"," ","e","v","e","r","y"," ","c","u","s","t","o","m","e","r">>,
    <<"c","u","s","t","o","m","e","r"," ","r","e","v","e","n","u","e"," ","a","f","t","e","r"," ","f","u","n","d","i","n","g">>,
    <<"r","e","v","e","n","u","e"," ","b","e","f","o","r","e"," ","i","n","v","e","s","t","m","e","n","t">>,
    <<"n","e","w"," ","i","n","v","e","s","t","m","e","n","t"," ","r","o","u","n","d">> }

\* the words of a tuple joined by single spaces
Messages ==
  { join(ws) : ws \in UNION { [1..n -> Vocabulary] : n \in 0..MaxWords } }
    \cup { MsgMarketTrendsFintech, MsgCompareCompetitors, MsgBusinessPlanAcme,
           MsgMarketingPlan }
    \cup AliasMessages
    \cup PatternMessages

Contexts ==
  { NoContext, Context(<<>>), Context(<<"T","e","c","h","n","o","l","o","g","y">>), Context(<<"F","i","n","a","n","c","e">>),
    Context(<<"O","t","h","e","r">>), Context(<<"c","o","n","s","t","r","u","c","t","o","r">>) }

(***************************************************************************)
(* The chat page, the dashboard's New Chat and the session store.          *)
(***************************************************************************)
\* Browser tabs that show the application.
NumPages == 2
\* Session ids the store can assign.
MaxSessions == 1
\* Accepted submits over all tabs.
MaxTurns == 2
\* Requests in flight whose page is gone.
MaxOrphans == 1

Pages == 1..NumPages

SessionIds == 1..MaxSessions

\* The session ids a chat route can carry; 0 is /chat, without one.
RouteIds == 0..MaxSessions

\* What the user types into the input box (or picks from the quick prompts).
InputTexts == { <<" ","A","c","m","e"," ","l","a","u","n","c","h"," ">> }

\* The quick prompts the empty chat offers (of the four, the one used).
quickPrompts == { <<"W","h","o"," ","a","r","e"," ","m","y"," ","m","a","i","n"," ","c","o","m","p","e","t","i","t","o","r","s","?">> }

\* user.industry, as the registration and profile forms offer it ('' if unset).
UserIndustries == { <<>>, <<"T","e","c","h","n","o","l","o","g","y">> }

\* response.response: the completion's text, or the orchestrator's own
\* fallback; the client does not tell them apart.
ReplyText == "(response)"

FallbackText ==
  "Sorry, I encountered an error processing your message. Please try again."

VARIABLES
  tMessage, tContext, tCall, tResult,  \* a call of a title function
  userIndustry,   \* user.industry of the auth context
  store,          \* the session store behind chatApi
  page,           \* per tab: the route and the mounted page's state
  orphans,        \* requests in flight whose page is gone
  renamesIssued,  \* per tab and session: chatApi.updateSession requests issued
  renamesApplied, \* per session: renames the store has applied
  turns,          \* accepted submits so far
  auth,           \* AuthProvider's state: user, isLoading
  localStorage,   \* the 'token' and 'user' items
  browser         \* the document: location, what App renders, handlers in flight

titleVars == <<tMessage, tContext, tCall, tResult>>

sysVars ==
  <<userIndustry, store, page, orphans, renamesIssued, renamesApplied, turns>>

authVars == <<auth, localStorage, browser>>

vars ==
  <<tMessage, tContext, tCall, tResult, userIndustry, store, page, orphans,
    renamesIssued, renamesApplied, turns, auth, localStorage, browser>>

NoSession == [id |-> 0, session_name |-> Undefined]

NoRequest == [kind |-> "none", sid |-> 0, title |-> Undefined, content |-> <<>>]

Request(kind, sid, title, content) ==
  [kind |-> kind, sid |-> sid, title |-> title, content |-> content]

\* The turn of the last accepted submit: the length of the list and the
\* route's session id the handler closed over, the message, how far the
\* rename and the send have come, and the sendMessage requests issued for it.
NoTurn ==
  [n |-> 0, sid |-> 0, rename |-> "none", send |-> "none", content |-> <<>>,
   sends |-> 0]

Message(role, content) == [role |-> role, content |-> content]

\* No page of the application is shown in the tab.  effect is the function
\* the [sessionId] effect has started and that has not returned, pc the
\* position of the event handler; renames counts the chatApi.updateSession
\* requests the mounted page has issued; loadFailed records that the page
\* shown was reached by the catch of loadSession.
ClosedPage ==
  [ route |-> "closed", sessionId |-> 0, session |-> NoSession,
    messages |-> <<>>, newMessage |-> <<>>, isLoading |-> FALSE,
    isSending |-> FALSE, isTyping |-> FALSE, hasRenamedSession |-> FALSE,
    effect |-> "none", pc |-> "idle", req |-> NoRequest, turn |-> NoTurn,
    renames |-> 0, loadFailed |-> FALSE ]

\* DashboardPage, mounted.
DashboardPage == [ClosedPage EXCEPT !.route = "dashboard"]

\* ChatPage as useState initialises it and its mount effect leaves it: with a
\* session id loadSession has issued getSession and getMessages, without one
\* createNewSession has issued createSession with the given name.
ChatPage(sid, creativeName) ==
  [ClosedPage EXCEPT
     !.route = "chat",
     !.sessionId = sid,
     !.isLoading = TRUE,
     !.effect = IF sid = 0 THEN "createNewSession" ELSE "loadSession",
     !.req = IF sid = 0 THEN Request("create", 0, creativeName, <<>>)
                        ELSE NoRequest]

EmptySession ==
  [exists |-> FALSE, name |-> Undefined, messages |-> <<>>, message_count |-> 0]

(***************************************************************************)
(* The session store (section 4.2 of the specification).                   *)
(***************************************************************************)
FreeIds == {s \in SessionIds : ~store[s].exists}

NextId == CHOOSE s \in FreeIds : \A t \in FreeIds : s <= t

\* create(userId, name): a default creative title if name is empty
storeCreate(st, name, rnd) ==
  [st EXCEPT ![NextId] =
     [exists |-> TRUE,
      name |-> IF IsNonEmptyString(name) THEN name
               ELSE getRandomCreativeTitle(rnd),
      messages |-> <<>>,
      message_count |-> 0]]

\* rename(sessionId, userId, newName): overwrites the name unconditionally
storeRename(st, sid, newName) == [st EXCEPT ![sid].name = newName]

\* appendMessage(sessionId, userId, role, content): the message and the
\* session's message_count in one step
storeAppend(st, sid, role, content) ==
  [st EXCEPT ![sid].messages = Append(@, Message(role, content)),
             ![sid].message_count = @ + 1]

\* the orchestrator's sendMessage up to and including the reply (section 4.3):
\* the user message, then the assistant message it answers with
storeTurn(st, sid, content) ==
  storeAppend(storeAppend(st, sid, "user", Chars(content, "")), sid, "assistant",
              Str(ReplyText))

hasUserMessage(st, sid) ==
  \E i \in 1..Len(st[sid].messages) : st[sid].messages[i].role = "user"

(***************************************************************************)
(* Leaving a page.                                                         *)
(***************************************************************************)
\* The request a page leaves in flight when the tab is closed or reloaded:
\* the script is gone, the request may still reach the server.
Abandoned(p) ==
  IF page[p].req.kind \in {"create", "rename", "send"}
    THEN {[req |-> page[p].req, thenSend |-> FALSE]}
    ELSE {}

\* The same when the router unmounts ChatPage (the Dashboard link): the
\* handler keeps running, so a rename in flight is still followed by the
\* sendMessage request.
Unmounted(p) ==
  IF page[p].req.kind \in {"create", "rename", "send"}
    THEN {[req |-> page[p].req,
           thenSend |-> page[p].route = "chat" /\ page[p].req.kind = "rename"]}
    ELSE {}

\* A page with a request in flight can be left while the model has room for
\* the request.
CanLeave(p) ==
  page[p].req.kind \in {"create", "rename", "send"}
    => Cardinality(orphans) < MaxOrphans

SysInit ==
  /\ userIndustry \in UserIndustries
  /\ store = [s \in SessionIds |-> EmptySession]
  /\ page = [p \in Pages |-> ClosedPage]
  /\ orphans = {}
  /\ renamesIssued = [p \in Pages |-> [s \in SessionIds |-> 0]]
  /\ renamesApplied = [s \in SessionIds |-> 0]
  /\ turns = 0

\* The state of the application part while a title function is exercised.
SysIdle ==
  /\ userIndustry = <<>>
  /\ store = [s \in SessionIds |-> EmptySession]
  /\ page = [p \in Pages |-> ClosedPage]
  /\ orphans = {}
  /\ renamesIssued = [p \in Pages |-> [s \in SessionIds |-> 0]]
  /\ renamesApplied = [s \in SessionIds |-> 0]
  /\ turns = 0

TitleIdle ==
  /\ tMessage = <<>>
  /\ tContext = NoContext
  /\ tCall = "none"
  /\ tResult = Undefined

(***************************************************************************)
(* Navigation.                                                             *)
(***************************************************************************)
\* The tab is closed.
CloseTab(p) ==
  /\ page[p].route # "closed"
  /\ CanLeave(p)
  /\ page' = [page EXCEPT ![p] = ClosedPage]
  /\ orphans' = orphans \cup Abandoned(p)
  /\ UNCHANGED <<titleVars, authVars, userIndustry, store, renamesIssued, renamesApplied,
                 turns>>

\* /dashboard is opened: by URL in a closed tab, by the Dashboard link of the
\* chat page.
OpenDashboard(p) ==
  /\ page[p].route \in {"closed", "chat"}
  /\ CanLeave(p)
  /\ page' = [page EXCEPT ![p] = DashboardPage]
  /\ orphans' = orphans \cup Unmounted(p)
  /\ UNCHANGED <<titleVars, authVars, userIndustry, store, renamesIssued, renamesApplied,
                 turns>>

\* /chat/:sessionId is opened: by URL in a closed tab, by a session link of
\* the dashboard, by a reload of the chat page.  ChatPage mounts afresh and
\* loadSession starts.
OpenChat(p, sid) ==
  /\ CanLeave(p)
  /\ page' = [page EXCEPT ![p] = ChatPage(sid, Undefined)]
  /\ orphans' = orphans \cup Abandoned(p)
  /\ UNCHANGED <<titleVars, authVars, userIndustry, store, renamesIssued, renamesApplied,
                 turns>>

\* /chat is opened without a session id: createNewSession issues createSession.
OpenChatWithoutId(p) ==
  /\ page[p].route = "closed"
  /\ \E rnd \in 0..(RandN - 1) :
       page' = [page EXCEPT ![p] = ChatPage(0, getRandomCreativeTitle(rnd))]
  /\ UNCHANGED <<titleVars, authVars, userIndustry, store, orphans, renamesIssued,
                 renamesApplied, turns>>

\* The browser traverses its history from one chat entry to another: the
\* route  /chat/:sessionId?  keeps its element, so the mounted ChatPage
\* stays with all its state and its [sessionId] effect runs loadSession or
\* createNewSession for the new parameter.  One such function is followed at
\* a time, and /chat is entered between turns.
historyTraversal(p, sid) ==
  /\ page[p].route = "chat"
  /\ page[p].effect = "none"
  /\ sid # page[p].sessionId
  /\ sid = 0 => page[p].pc = "idle"
  /\ \E rnd \in 0..(RandN - 1) :
       page' = [page EXCEPT
                  ![p].sessionId = sid,
                  ![p].effect = IF sid = 0 THEN "createNewSession"
                                          ELSE "loadSession",
                  ![p].req = IF sid = 0
                               THEN Request("create", 0,
                                            getRandomCreativeTitle(rnd), <<>>)
                               ELSE @]
  /\ UNCHANGED <<titleVars, authVars, userIndustry, store, orphans, renamesIssued,
                 renamesApplied, turns>>

(***************************************************************************)
(* DashboardPage.handleNewChat and ChatPage.createNewSession.              *)
(***************************************************************************)
handleNewChat(p) ==
  /\ page[p].route = "dashboard"
  /\ page[p].pc = "idle"
  /\ \E rnd \in 0..(RandN - 1) :
       page' = [page EXCEPT
                  ![p].pc = "handleNewChat",
                  ![p].req = Request("create", 0, getRandomCreativeTitle(rnd), <<>>)]
  /\ UNCHANGED <<titleVars, authVars, userIndustry, store, orphans, renamesIssued,
                 renamesApplied, turns>>

\* createSession answers: navigate(`/chat/${newSession.id}`) mounts ChatPage
handleNewChat_created(p) ==
  /\ page[p].pc = "handleNewChat"
  /\ FreeIds # {}
  /\ \E rnd \in 0..(RandN - 1) :
       store' = storeCreate(store, page[p].req.title, rnd)
  /\ page' = [page EXCEPT ![p] = ChatPage(NextId, Undefined)]
  /\ UNCHANGED <<titleVars, authVars, userIndustry, orphans, renamesIssued,
                 renamesApplied, turns>>

\* createSession rejects: logged, the dashboard stays
handleNewChat_failed(p) ==
  /\ page[p].pc = "handleNewChat"
  /\ page' = [page EXCEPT ![p].pc = "idle", ![p].req = NoRequest]
  /\ UNCHANGED <<titleVars, authVars, userIndustry, store, orphans, renamesIssued,
                 renamesApplied, turns>>

\* createSession answers: navigate(..., {replace: true}) changes the route's
\* session id of the same ChatPage, whose effect starts loadSession
createNewSession_created(p) ==
  /\ page[p].effect = "createNewSession"
  /\ FreeIds # {}
  /\ \E rnd \in 0..(RandN - 1) :
       store' = storeCreate(store, page[p].req.title, rnd)
  /\ page' = [page EXCEPT ![p].sessionId = NextId,
                          ![p].effect = "loadSession",
                          ![p].req = NoRequest]
  /\ UNCHANGED <<titleVars, authVars, userIndustry, orphans, renamesIssued,
                 renamesApplied, turns>>

\* createSession rejects: logged, setIsLoading(false)
createNewSession_failed(p) ==
  /\ page[p].effect = "createNewSession"
  /\ page' = [page EXCEPT ![p].isLoading = FALSE,
                          ![p].effect = "none",
                          ![p].req = NoRequest]
  /\ UNCHANGED <<titleVars, authVars, userIndustry, store, orphans, renamesIssued,
                 renamesApplied, turns>>

(***************************************************************************)
(* ChatPage.loadSession                                                    *)
(***************************************************************************)
\* loadSession that sets the session and leaves the message list as it is
loadSession_resolved_sessionOnly(p) ==
  /\ page[p].effect = "loadSession"
  /\ store[page[p].sessionId].exists
  /\ page' = [page EXCEPT
               ![p].session = [id |-> page[p].sessionId,
                               session_name |-> store[page[p].sessionId].name],
               ![p].isLoading = FALSE,
               ![p].effect = "none"]
  /\ UNCHANGED <<titleVars, authVars, userIndustry, store, orphans, renamesIssued,
                 renamesApplied, turns>>

\* chatApi.getSession and chatApi.getMessages answer with the session as the
\* store has it: setSession, setMessages, then finally
loadSession_resolved(p) ==
  /\ page[p].effect = "loadSession"
  /\ store[page[p].sessionId].exists
  /\ page' = [page EXCEPT
               ![p].session = [id |-> page[p].sessionId,
                               session_name |-> store[page[p].sessionId].name],
               ![p].messages = store[page[p].sessionId].messages,
               ![p].isLoading = FALSE,
               ![p].effect = "none"]
  /\ UNCHANGED <<titleVars, authVars, userIndustry, store, orphans, renamesIssued,
                 renamesApplied, turns>>

\* loadSession putting what arrived into the page's state before it looks
\* at the failure, and staying on the chat page
loadSession_catch_keepsData(pg, sessionData, messagesData) ==
  [pg EXCEPT !.session = sessionData,
             !.messages = messagesData,
             !.isLoading = FALSE,
             !.effect = "none",
             !.loadFailed = TRUE]

\* the catch of loadSession: Promise.all has rejected, so neither setSession
\* nor setMessages has run, whatever the other request answered;
\* navigate('/dashboard') unmounts ChatPage and mounts DashboardPage
loadSession_catch(pg, sessionData, messagesData) ==
  [DashboardPage EXCEPT !.loadFailed = TRUE]

\* getSession or getMessages rejects, or both: a session that does not exist
\* (or is not the caller's) is NotFound for both, a session that exists may
\* still have answered one of the two requests
loadSession_failed(p) ==
  /\ page[p].effect = "loadSession"
  /\ CanLeave(p)
  /\ orphans' = orphans \cup Unmounted(p)
  /\ \E failed \in {"getSession", "getMessages", "both"} :
       LET sid == page[p].sessionId
           sessionData == IF failed = "getMessages"
                            THEN [id |-> sid, session_name |-> store[sid].name]
                            ELSE NoSession
           messagesData == IF failed = "getSession"
                             THEN store[sid].messages
                             ELSE <<>>
       IN  /\ ~store[sid].exists => failed = "both"
           /\ page' = [page EXCEPT ![p] =
                         loadSession_catch(page[p], sessionData, messagesData)]
  /\ UNCHANGED <<titleVars, authVars, userIndustry, store, renamesIssued,
                 renamesApplied, turns>>

(***************************************************************************)
(* ChatPage.handleSendMessage and renameSessionBasedOnMessage              *)
(***************************************************************************)
\* onClick of a quick prompt, which the page offers while its list is empty
pickQuickPrompt(p, prompt) ==
  /\ page[p].route = "chat"
  /\ ~page[p].isLoading
  /\ Len(page[p].messages) = 0
  /\ page[p].newMessage # prompt
  /\ page' = [page EXCEPT ![p].newMessage = prompt]
  /\ UNCHANGED <<titleVars, authVars, userIndustry, store, orphans, renamesIssued,
                 renamesApplied, turns>>

\* onChange of the input; the form is rendered once isLoading is false and
\* the input is disabled while isSending
typeMessage(p, text) ==
  /\ page[p].route = "chat"
  /\ ~page[p].isLoading
  /\ ~page[p].isSending
  /\ page[p].newMessage # text
  /\ page' = [page EXCEPT ![p].newMessage = text]
  /\ UNCHANGED <<titleVars, authVars, userIndustry, store, orphans, renamesIssued,
                 renamesApplied, turns>>

\* renameSessionBasedOnMessage without its test of hasRenamedSession
renameWanted_ignoresFlag(pg) ==
  /\ Len(pg.messages) = 0
  /\ pg.session # NoSession

\* renameSessionBasedOnMessage is called and passes its guard
renameWanted(pg) ==
  /\ Len(pg.messages) = 0
  /\ pg.session # NoSession
  /\ ~pg.hasRenamedSession

\* the guard of handleSendMessage without its test of isSending
submitAccepted_whileSending(pg) ==
  /\ trim(pg.newMessage) # <<>>
  /\ pg.sessionId # 0

\* the guard of handleSendMessage passes
submitAccepted(pg) ==
  /\ trim(pg.newMessage) # <<>>
  /\ ~pg.isSending
  /\ pg.sessionId # 0

\* An accepted submit, up to the first request: the user message is shown,
\* then either chatApi.updateSession (first message) or chatApi.sendMessage
\* is issued.
handleSendMessage(p) ==
  /\ page[p].route = "chat"
  /\ ~page[p].isLoading
  /\ submitAccepted(page[p])
  /\ turns < MaxTurns
  /\ LET pg == page[p]
         messageContent == trim(pg.newMessage)
         shown == [pg EXCEPT
                     !.newMessage = <<>>,
                     !.isSending = TRUE,
                     !.isTyping = TRUE,
                     !.messages = Append(@, Message("user", Chars(messageContent, "")))]
     IN  IF renameWanted(pg)
           THEN /\ \E rnd \in 0..(RandN - 1) :
                     page' = [page EXCEPT ![p] =
                       [shown EXCEPT
                          !.pc = "renameSession",
                          !.renames = @ + 1,
                          !.req = Request("rename", pg.session.id,
                                    generateSmartChatTitle(messageContent,
                                      Context(userIndustry), rnd),
                                    messageContent),
                          !.turn = [n |-> Len(pg.messages),
                                    sid |-> pg.sessionId,
                                    rename |-> "issued", send |-> "none",
                                    content |-> messageContent,
                                    sends |-> 0]]]
                /\ renamesIssued' =
                     [renamesIssued EXCEPT ![p][pg.session.id] = @ + 1]
           ELSE /\ page' = [page EXCEPT ![p] =
                       [shown EXCEPT
                          !.pc = "sendMessage",
                          !.req = Request("send", pg.sessionId, Undefined,
                                          messageContent),
                          !.turn = [n |-> Len(pg.messages),
                                    sid |-> pg.sessionId,
                                    rename |-> "none", send |-> "issued",
                                    content |-> messageContent,
                                    sends |-> 1]]]
                /\ UNCHANGED renamesIssued
  /\ turns' = turns + 1
  /\ UNCHANGED <<titleVars, authVars, userIndustry, store, orphans, renamesApplied>>

\* the page after a submit the guard turns away, with isSending set before
\* the guard is looked at
submitRejected_setsSending(pg) == [pg EXCEPT !.isSending = TRUE]

\* the page after a submit the guard turns away: the handler returns
submitRejected(pg) == pg

\* A submit event reaches handleSendMessage and its guard returns.
handleSendMessage_rejected(p) ==
  /\ page[p].route = "chat"
  /\ ~page[p].isLoading
  /\ ~submitAccepted(page[p])
  /\ page' = [page EXCEPT ![p] = submitRejected(page[p])]
  /\ UNCHANGED <<titleVars, authVars, userIndustry, store, orphans, renamesIssued,
                 renamesApplied, turns>>

\* after renameSessionBasedOnMessage returns: chatApi.sendMessage is issued
\* for the session id the handler closed over
sendIssued(pg, renameOutcome) ==
  [pg EXCEPT !.pc = "sendMessage",
             !.req = Request("send", pg.turn.sid, Undefined, pg.req.content),
             !.turn = [pg.turn EXCEPT !.rename = renameOutcome,
                                      !.send = "issued",
                                      !.sends = @ + 1]]

\* chatApi.updateSession answers: setSession(updatedSession),
\* setHasRenamedSession(true)
renameSession_ok(p) ==
  /\ page[p].pc = "renameSession"
  /\ store[page[p].req.sid].exists
  /\ IsNonEmptyString(page[p].req.title)
  /\ store' = storeRename(store, page[p].req.sid, page[p].req.title)
  /\ renamesApplied' = [renamesApplied EXCEPT ![page[p].req.sid] = @ + 1]
  /\ page' = [page EXCEPT ![p] =
       sendIssued([page[p] EXCEPT
                     !.session = [id |-> page[p].req.sid,
                                  session_name |-> page[p].req.title],
                     !.hasRenamedSession = TRUE], "ok")]
  /\ UNCHANGED <<titleVars, authVars, userIndustry, orphans, renamesIssued, turns>>

\* renameSessionBasedOnMessage without its catch: the rejection leaves
\* handleSendMessage before its try, nothing more is issued
renameSession_uncaught(pg, rnd) ==
  [pg EXCEPT !.pc = "idle",
             !.req = NoRequest,
             !.turn = [pg.turn EXCEPT !.rename = "failed"]]

\* the catch of renameSessionBasedOnMessage: the local name only, the flag,
\* and the turn goes on
renameSession_catch(pg, rnd) ==
  sendIssued([pg EXCEPT
                !.session = IF pg.session # NoSession
                              THEN [pg.session EXCEPT !.session_name =
                                      generateSmartChatTitle(pg.req.content,
                                                             NoContext, rnd)]
                              ELSE NoSession,
                !.hasRenamedSession = TRUE], "failed")

\* chatApi.updateSession rejects; the store may or may not have applied it
renameSession_failed(p) ==
  /\ page[p].pc = "renameSession"
  /\ \E applied \in BOOLEAN :
       /\ applied => store[page[p].req.sid].exists /\ IsNonEmptyString(page[p].req.title)
       /\ store' = IF applied
                     THEN storeRename(store, page[p].req.sid, page[p].req.title)
                     ELSE store
       /\ renamesApplied' = IF applied
                              THEN [renamesApplied EXCEPT ![page[p].req.sid] = @ + 1]
                              ELSE renamesApplied
  /\ \E rnd \in 0..(RandN - 1) :
       page' = [page EXCEPT ![p] = renameSession_catch(page[p], rnd)]
  /\ UNCHANGED <<titleVars, authVars, userIndustry, orphans, renamesIssued, turns>>

\* handleSendMessage resetting isSending and isTyping at the end of its try
\* instead of in a finally: a rejected request leaves them set
turnEnded_tryOnly(pg, outcome) ==
  IF outcome = "ok"
    THEN [pg EXCEPT !.isSending = FALSE,
                    !.isTyping = FALSE,
                    !.pc = "idle",
                    !.req = NoRequest,
                    !.turn = [pg.turn EXCEPT !.send = outcome]]
    ELSE [pg EXCEPT !.pc = "idle",
                    !.req = NoRequest,
                    !.turn = [pg.turn EXCEPT !.send = outcome]]

\* the finally of handleSendMessage
turnEnded(pg, outcome) ==
  [pg EXCEPT !.isSending = FALSE,
             !.isTyping = FALSE,
             !.pc = "idle",
             !.req = NoRequest,
             !.turn = [pg.turn EXCEPT !.send = outcome]]

\* chatApi.sendMessage answers: the reply is appended to the list
sendMessage_then(pg, response) ==
  turnEnded([pg EXCEPT !.messages = Append(@, Message("assistant", response))],
            "ok")

\* the catch of handleSendMessage issuing the request again
sendMessage_catch_retries(pg) == sendIssued(pg, pg.turn.rename)

\* the catch of handleSendMessage logging only
sendMessage_catch_logOnly(pg) == turnEnded(pg, "failed")

\* chatApi.sendMessage rejects: the error message is appended to the list
sendMessage_catch(pg) ==
  turnEnded([pg EXCEPT !.messages =
               Append(@, Message("assistant", Str(FallbackText)))],
            "failed")

\* The orchestrator serves the request and the response arrives.
sendMessage_ok(p) ==
  /\ page[p].pc = "sendMessage"
  /\ store[page[p].req.sid].exists
  /\ store' = storeTurn(store, page[p].req.sid, page[p].req.content)
  /\ page' = [page EXCEPT ![p] = sendMessage_then(page[p], Str(ReplyText))]
  /\ UNCHANGED <<titleVars, authVars, userIndustry, orphans, renamesIssued,
                 renamesApplied, turns>>

\* The request rejects: it never reached the orchestrator, or the
\* orchestrator failed after storing the user message.
sendMessage_failed(p) ==
  /\ page[p].pc = "sendMessage"
  /\ \E storedUser \in BOOLEAN :
       /\ storedUser => store[page[p].req.sid].exists
       /\ store' = IF storedUser
                     THEN storeAppend(store, page[p].req.sid, "user",
                                      Chars(page[p].req.content, ""))
                     ELSE store
  /\ page' = [page EXCEPT ![p] = sendMessage_catch(page[p])]
  /\ UNCHANGED <<titleVars, authVars, userIndustry, orphans, renamesIssued,
                 renamesApplied, turns>>

(***************************************************************************)
(* Requests whose page is gone.                                            *)
(***************************************************************************)
\* what follows a served or lost rename whose handler is still running
followUp(o) ==
  IF o.thenSend
    THEN {[req |-> Request("send", o.req.sid, Undefined, o.req.content),
           thenSend |-> FALSE]}
    ELSE {}

\* The server serves a request nobody waits for.
ServeOrphan(o) ==
  /\ o \in orphans
  /\ o.req.kind = "create" => FreeIds # {}
  /\ o.req.kind \in {"rename", "send"} => store[o.req.sid].exists
  /\ o.req.kind = "rename" => IsNonEmptyString(o.req.title)
  /\ \E rnd \in 0..(RandN - 1) :
       store' = CASE o.req.kind = "create" -> storeCreate(store, o.req.title, rnd)
                  [] o.req.kind = "rename" -> storeRename(store, o.req.sid, o.req.title)
                  [] o.req.kind = "send" ->
                       storeTurn(store, o.req.sid, o.req.content)
  /\ renamesApplied' = IF o.req.kind = "rename"
                         THEN [renamesApplied EXCEPT ![o.req.sid] = @ + 1]
                         ELSE renamesApplied
  /\ orphans' = (orphans \ {o}) \cup followUp(o)
  /\ UNCHANGED <<titleVars, authVars, userIndustry, page, renamesIssued, turns>>

\* The request is lost or rejected.
DropOrphan(o) ==
  /\ o \in orphans
  /\ orphans' = (orphans \ {o}) \cup followUp(o)
  /\ UNCHANGED <<titleVars, authVars, userIndustry, store, page, renamesIssued,
                 renamesApplied, turns>>

(***************************************************************************)
(* AuthContext (AuthProvider), App, and the handlers that sign in, sign    *)
(* out and update the profile.                                             *)
(***************************************************************************)
\* The locations a document is opened at or navigated to; "/settings" stands
\* for the paths only the catch-all route matches.
Paths == {"/login", "/register", "/dashboard", "/chat", "/", "/settings"}

\* A User object of lib/api.
UserObject(name) == [kind |-> "object", pre |-> <<>>, lit |-> name]

\* response.user of a sign-in, and the user userApi.updateProfile answers with
SignedInUser == UserObject("user")

UpdatedUser == UserObject("user with the profile updated")

\* response.access_token
AccessToken == Str("jwt")

\* error.response?.data?.detail of a rejected request: none, or the server's
Details == {Undefined, Str("Incorrect email or password")}

\* JSON.stringify, over the values the model hands to it
JSON_stringify(v) ==
  CASE v = SignedInUser -> Str("{\"id\":1}")
    [] v = UpdatedUser -> Str("{\"id\":1,\"industry\":\"Technology\"}")
    [] v = Null -> Str("null")
    [] OTHER -> Str("undefined")

JSONValues == {SignedInUser, UpdatedUser, Null}

\* JSON.parse(text) returns, it does not throw
JSON_parses(text) == \E v \in JSONValues : JSON_stringify(v) = text

JSON_parse(text) == CHOOSE v \in JSONValues : JSON_stringify(v) = text

\* a 'user' item cut short, which JSON.parse throws on
TruncatedText == Str("{\"id\":")

\* localStorage without the two items: getItem answers null
NoItems == [token |-> Null, user |-> Null]

\* AuthProvider as useState initialises it
AuthStart == [user |-> Null, isLoading |-> TRUE]

AuthState(a, ls) == [auth |-> a, localStorage |-> ls]

\* const isAuthenticated = !!user
isAuthenticated(a) == a.user # Null

\* checkAuth, run by the mount effect
checkAuth(a, ls) ==
  LET token == ls.token
      savedUser == ls.user
  IN  IF IsNonEmptyString(token) /\ IsNonEmptyString(savedUser)
        THEN IF JSON_parses(savedUser)
               THEN AuthState([user |-> JSON_parse(savedUser),
                               isLoading |-> FALSE], ls)
               ELSE AuthState([user |-> Null, isLoading |-> FALSE], NoItems)
        ELSE AuthState([a EXCEPT !.isLoading = FALSE], ls)

\* login after authApi.login has answered
login_then(a, ls, response) ==
  AuthState([user |-> response.user, isLoading |-> FALSE],
            [token |-> response.access_token,
             user |-> JSON_stringify(response.user)])

\* the message of the Error login throws, whatever the server said
login_catch_generic(detail) == Str("Login failed")

\* the message of the Error login throws: the server's detail or 'Login failed'
login_catch(detail) ==
  IF IsNonEmptyString(detail) THEN detail ELSE Str("Login failed")

\* the message of the Error register throws
register_catch(detail) ==
  IF IsNonEmptyString(detail) THEN detail ELSE Str("Registration failed")

logout(a, ls) == AuthState([a EXCEPT !.user = Null], NoItems)

loginWithToken(a, ls, user, token) ==
  AuthState([user |-> user, isLoading |-> FALSE],
            [token |-> token, user |-> JSON_stringify(user)])

updateUser(a, ls, userData) ==
  AuthState([a EXCEPT !.user = userData],
            [ls EXCEPT !.user = JSON_stringify(userData)])

Element(type, to) == [type |-> type, to |-> to]

\* App with the chat route rendering ChatPage whoever asks
App_chatUnguarded(path, a) ==
  IF a.isLoading THEN Element("LoadingSpinner", "")
  ELSE CASE path = "/login" ->
              IF ~isAuthenticated(a) THEN Element("LoginPage", "")
                                     ELSE Element("Navigate", "/dashboard")
         [] path = "/register" ->
              IF ~isAuthenticated(a) THEN Element("RegisterPage", "")
                                     ELSE Element("Navigate", "/dashboard")
         [] path = "/dashboard" ->
              IF isAuthenticated(a) THEN Element("DashboardPage", "")
                                    ELSE Element("Navigate", "/login")
         [] path = "/chat" -> Element("ChatPage", "")
         [] OTHER ->
              Element("Navigate",
                      IF isAuthenticated(a) THEN "/dashboard" ELSE "/login")

\* What App renders at a location: the spinner, a page, or a Navigate
App(path, a) ==
  IF a.isLoading THEN Element("LoadingSpinner", "")
  ELSE CASE path = "/login" ->
              IF ~isAuthenticated(a) THEN Element("LoginPage", "")
                                     ELSE Element("Navigate", "/dashboard")
         [] path = "/register" ->
              IF ~isAuthenticated(a) THEN Element("RegisterPage", "")
                                     ELSE Element("Navigate", "/dashboard")
         [] path = "/dashboard" ->
              IF isAuthenticated(a) THEN Element("DashboardPage", "")
                                    ELSE Element("Navigate", "/login")
         [] path = "/chat" ->
              IF isAuthenticated(a) THEN Element("ChatPage", "")
                                    ELSE Element("Navigate", "/login")
         [] OTHER ->
              Element("Navigate",
                      IF isAuthenticated(a) THEN "/dashboard" ELSE "/login")

\* The location once the Navigate elements App renders have taken effect.
Redirected(path, a) ==
  LET first == App(path, a)
      second == IF first.type = "Navigate" THEN App(first.to, a) ELSE first
  IN  IF first.type # "Navigate" THEN path
      ELSE IF second.type # "Navigate" THEN first.to
      ELSE second.to

\* A document just loaded: nothing rendered but the spinner, no handler
\* running.  req is the request of the sign-in or sign-up form in flight and
\* reqLive whether the page that issued it is still mounted, profile the
\* request of the profile modal, timer the setTimeout pending after a Google
\* sign-in, error the message the form shows, thrown the message of the Error
\* login or register threw last and detail what the server had answered.
NewDocument(path) ==
  [ path |-> path, shown |-> "LoadingSpinner", req |-> "none",
    reqLive |-> FALSE, profile |-> "none", timer |-> "none",
    error |-> Str(""), thrown |-> Undefined, detail |-> Undefined ]

\* React renders App for the auth state a handler leaves and the router
\* follows its Navigate elements; a page no longer rendered is unmounted and
\* its form state is gone.
Rendered(b, a) ==
  LET path == Redirected(b.path, a)
      shown == App(path, a).type
  IN  [b EXCEPT !.path = path,
                !.shown = shown,
                !.error = IF shown = b.shown THEN @ ELSE Str(""),
                !.reqLive = @ /\ shown = b.shown]

\* The Link elements of the pages.
Links ==
  { <<"LoginPage", "/register">>, <<"RegisterPage", "/login">>,
    <<"DashboardPage", "/chat">>, <<"ChatPage", "/dashboard">> }

AuthIdle ==
  /\ auth = AuthStart
  /\ localStorage = NoItems
  /\ browser = NewDocument("/")

\* A document is loaded at a location, over whatever localStorage holds.
OpenApp(path) ==
  /\ auth' = AuthStart
  /\ browser' = NewDocument(path)
  /\ UNCHANGED <<titleVars, sysVars, localStorage>>

\* The mount effect of AuthProvider runs checkAuth.
checkAuth_effect ==
  /\ auth.isLoading
  /\ LET s == checkAuth(auth, localStorage)
     IN  /\ auth' = s.auth
         /\ localStorage' = s.localStorage
         /\ browser' = Rendered(browser, s.auth)
  /\ UNCHANGED <<titleVars, sysVars>>

\* A Link of the page shown is followed.
followLink(path) ==
  /\ ~auth.isLoading
  /\ <<browser.shown, path>> \in Links
  /\ browser' = Rendered([browser EXCEPT !.path = path], auth)
  /\ UNCHANGED <<titleVars, sysVars, auth, localStorage>>

\* LoginPage.handleSubmit up to its await: login has called authApi.login
LoginPage_handleSubmit ==
  /\ browser.shown = "LoginPage"
  /\ browser.req = "none"
  /\ browser' = [browser EXCEPT !.req = "login", !.reqLive = TRUE,
                                !.error = Str(""), !.thrown = Undefined,
                                !.detail = Undefined]
  /\ UNCHANGED <<titleVars, sysVars, auth, localStorage>>

\* RegisterPage.handleSubmit up to its await: register has called
\* authApi.register
RegisterPage_handleSubmit ==
  /\ browser.shown = "RegisterPage"
  /\ browser.req = "none"
  /\ browser' = [browser EXCEPT !.req = "register", !.reqLive = TRUE,
                                !.error = Str(""), !.thrown = Undefined,
                                !.detail = Undefined]
  /\ UNCHANGED <<titleVars, sysVars, auth, localStorage>>

\* authApi.register answers: register calls login
register_resolved ==
  /\ browser.req = "register"
  /\ browser' = [browser EXCEPT !.req = "registerLogin"]
  /\ UNCHANGED <<titleVars, sysVars, auth, localStorage>>

\* authApi.register rejects: register throws, the page shows the message
register_rejected(detail) ==
  /\ browser.req = "register"
  /\ browser' = [browser EXCEPT
                   !.req = "none", !.reqLive = FALSE,
                   !.thrown = register_catch(detail),
                   !.detail = detail,
                   !.error = IF browser.reqLive THEN register_catch(detail)
                                                ELSE @]
  /\ UNCHANGED <<titleVars, sysVars, auth, localStorage>>

\* authApi.login answers: the items and the user are set, then the page's
\* handler navigates to /dashboard
login_resolved ==
  /\ browser.req \in {"login", "registerLogin"}
  /\ LET s == login_then(auth, localStorage,
                         [access_token |-> AccessToken, user |-> SignedInUser])
     IN  /\ auth' = s.auth
         /\ localStorage' = s.localStorage
         /\ browser' = Rendered([browser EXCEPT !.req = "none",
                                                !.reqLive = FALSE,
                                                !.path = "/dashboard"], s.auth)
  /\ UNCHANGED <<titleVars, sysVars>>

\* authApi.login rejects: login throws; called by register, its Error has no
\* response and register throws 'Registration failed'
login_rejected(detail) ==
  /\ browser.req \in {"login", "registerLogin"}
  /\ LET message == IF browser.req = "login"
                      THEN login_catch(detail)
                      ELSE register_catch(Undefined)
     IN  browser' = [browser EXCEPT
                       !.req = "none", !.reqLive = FALSE,
                       !.thrown = message,
                       !.detail = detail,
                       !.error = IF browser.reqLive THEN message ELSE @]
  /\ UNCHANGED <<titleVars, sysVars, auth, localStorage>>

\* handleGoogleSuccess of either page up to its await
handleGoogleSuccess ==
  /\ browser.shown \in {"LoginPage", "RegisterPage"}
  /\ browser.req = "none"
  /\ browser' = [browser EXCEPT
                   !.req = IF browser.shown = "LoginPage"
                             THEN "googleLogin" ELSE "googleRegister",
                   !.reqLive = TRUE, !.error = Str("")]
  /\ UNCHANGED <<titleVars, sysVars, auth, localStorage>>

\* authApi.googleVerifyToken answers: loginWithToken, and a timer that sets
\* window.location.href (LoginPage) or navigates (RegisterPage)
googleVerifyToken_resolved ==
  /\ browser.req \in {"googleLogin", "googleRegister"}
  /\ LET s == loginWithToken(auth, localStorage, SignedInUser, AccessToken)
     IN  /\ auth' = s.auth
         /\ localStorage' = s.localStorage
         /\ browser' = Rendered([browser EXCEPT
                                   !.req = "none", !.reqLive = FALSE,
                                   !.timer = IF browser.req = "googleLogin"
                                               THEN "href" ELSE "navigate"],
                                s.auth)
  /\ UNCHANGED <<titleVars, sysVars>>

\* authApi.googleVerifyToken rejects: the page shows the message
googleVerifyToken_rejected(detail) ==
  /\ browser.req \in {"googleLogin", "googleRegister"}
  /\ LET message == IF IsNonEmptyString(detail) THEN detail
                    ELSE IF browser.req = "googleLogin"
                      THEN Str("Google sign-in failed")
                      ELSE Str("Google sign-up failed")
     IN  browser' = [browser EXCEPT
                       !.req = "none", !.reqLive = FALSE,
                       !.error = IF browser.reqLive THEN message ELSE @]
  /\ UNCHANGED <<titleVars, sysVars, auth, localStorage>>

\* The timer of handleGoogleSuccess fires: window.location.href loads the
\* document anew, navigate changes the location
timerFires ==
  /\ browser.timer # "none"
  /\ IF browser.timer = "href"
       THEN /\ auth' = AuthStart
            /\ browser' = NewDocument("/dashboard")
       ELSE /\ auth' = auth
            /\ browser' = Rendered([browser EXCEPT !.timer = "none",
                                                   !.path = "/dashboard"], auth)
  /\ UNCHANGED <<titleVars, sysVars, localStorage>>

\* Sign Out of DashboardPage or ChatPage
logout_onClick ==
  /\ browser.shown \in {"DashboardPage", "ChatPage"}
  /\ LET s == logout(auth, localStorage)
     IN  /\ auth' = s.auth
         /\ localStorage' = s.localStorage
         /\ browser' = Rendered(browser, s.auth)
  /\ UNCHANGED <<titleVars, sysVars>>

\* ProfileUpdateModal.handleSubmit up to its await
ProfileUpdateModal_handleSubmit ==
  /\ browser.shown = "DashboardPage"
  /\ browser.profile = "none"
  /\ browser' = [browser EXCEPT !.profile = "pending"]
  /\ UNCHANGED <<titleVars, sysVars, auth, localStorage>>

\* userApi.updateProfile answers: the handler, which outlives its modal,
\* calls updateUser
updateProfile_resolved ==
  /\ browser.profile = "pending"
  /\ LET s == updateUser(auth, localStorage, UpdatedUser)
     IN  /\ auth' = s.auth
         /\ localStorage' = s.localStorage
         /\ browser' = Rendered([browser EXCEPT !.profile = "none"], s.auth)
  /\ UNCHANGED <<titleVars, sysVars>>

\* userApi.updateProfile rejects
updateProfile_rejected ==
  /\ browser.profile = "pending"
  /\ browser' = [browser EXCEPT !.profile = "none"]
  /\ UNCHANGED <<titleVars, sysVars, auth, localStorage>>

Init == SysInit /\ TitleIdle /\ AuthIdle

Next ==
  \/ \E p \in Pages : CloseTab(p)
  \/ \E p \in Pages : OpenDashboard(p)
  \/ \E p \in Pages, sid \in SessionIds : OpenChat(p, sid)
  \/ \E p \in Pages : OpenChatWithoutId(p)
  \/ \E p \in Pages : handleNewChat(p)
  \/ \E p \in Pages : handleNewChat_created(p)
  \/ \E p \in Pages : handleNewChat_failed(p)
  \/ \E p \in Pages : createNewSession_created(p)
  \/ \E p \in Pages : createNewSession_failed(p)
  \/ \E p \in Pages : loadSession_resolved(p)
  \/ \E p \in Pages : loadSession_failed(p)
  \/ \E p \in Pages, text \in InputTexts : typeMessage(p, text)
  \/ \E p \in Pages : handleSendMessage(p)
  \/ \E p \in Pages : handleSendMessage_rejected(p)
  \/ \E p \in Pages : renameSession_ok(p)
  \/ \E p \in Pages : renameSession_failed(p)
  \/ \E p \in Pages : sendMessage_ok(p)
  \/ \E p \in Pages : sendMessage_failed(p)
  \/ \E o \in orphans : ServeOrphan(o)
  \/ \E o \in orphans : DropOrphan(o)

Spec == Init /\ [][Next]_vars

(***************************************************************************)
(* One tab, with the requests it issues answered.                          *)
(***************************************************************************)
\* The tab whose turns are followed to their end.
LivePages == {1}

TurnNext ==
  \/ \E p \in LivePages : CloseTab(p)
  \/ \E p \in LivePages : OpenDashboard(p)
  \/ \E p \in LivePages, sid \in SessionIds : OpenChat(p, sid)
  \/ \E p \in LivePages : OpenChatWithoutId(p)
  \/ \E p \in LivePages : handleNewChat(p)
  \/ \E p \in LivePages : handleNewChat_created(p)
  \/ \E p \in LivePages : handleNewChat_failed(p)
  \/ \E p \in LivePages : createNewSession_created(p)
  \/ \E p \in LivePages : createNewSession_failed(p)
  \/ \E p \in LivePages : loadSession_resolved(p)
  \/ \E p \in LivePages : loadSession_failed(p)
  \/ \E p \in LivePages, text \in InputTexts : typeMessage(p, text)
  \/ \E p \in LivePages : handleSendMessage(p)
  \/ \E p \in LivePages : handleSendMessage_rejected(p)
  \/ \E p \in LivePages : renameSession_ok(p)
  \/ \E p \in LivePages : renameSession_failed(p)
  \/ \E p \in LivePages : sendMessage_ok(p)
  \/ \E p \in LivePages : sendMessage_failed(p)
  \/ \E o \in orphans : ServeOrphan(o)
  \/ \E o \in orphans : DropOrphan(o)

\* chatApi.updateSession is answered or rejected
RenameAnswered ==
  \E p \in LivePages : renameSession_ok(p) \/ renameSession_failed(p)

\* chatApi.sendMessage is answered or rejected: the orchestrator bounds the
\* completion call by a timeout and answers with the reply or its fallback
SendAnswered ==
  \E p \in LivePages : sendMessage_ok(p) \/ sendMessage_failed(p)

\* Every request of the tab is answered or rejected.
TurnSpec ==
  Init /\ [][TurnNext]_vars /\ WF_vars(RenameAnswered) /\ WF_vars(SendAnswered)

\* chatApi.sendMessage is answered or rejected; chatApi.updateSession may
\* stay without an answer.
HungRenameSpec == Init /\ [][TurnNext]_vars /\ WF_vars(SendAnswered)

(***************************************************************************)
(* One tab whose history is traversed between chat entries.                *)
(***************************************************************************)
HistoryNext ==
  \/ TurnNext
  \/ \E p \in LivePages, sid \in RouteIds : historyTraversal(p, sid)
  \/ \E p \in LivePages, prompt \in quickPrompts : pickQuickPrompt(p, prompt)

HistorySpec == Init /\ [][HistoryNext]_vars

(***************************************************************************)
(* One document, from its load on, over every content of localStorage.     *)
(***************************************************************************)
AuthInit ==
  /\ TitleIdle
  /\ SysIdle
  /\ auth = AuthStart
  /\ localStorage \in
       [token : {Null, AccessToken},
        user : {Null, JSON_stringify(SignedInUser), JSON_stringify(Null),
                TruncatedText}]
  /\ browser \in {NewDocument(path) : path \in Paths}

AuthNext ==
  \/ \E path \in Paths : OpenApp(path)
  \/ checkAuth_effect
  \/ \E path \in Paths : followLink(path)
  \/ LoginPage_handleSubmit
  \/ RegisterPage_handleSubmit
  \/ register_resolved
  \/ \E detail \in Details : register_rejected(detail)
  \/ login_resolved
  \/ \E detail \in Details : login_rejected(detail)
  \/ handleGoogleSuccess
  \/ googleVerifyToken_resolved
  \/ \E detail \in Details : googleVerifyToken_rejected(detail)
  \/ timerFires
  \/ logout_onClick
  \/ ProfileUpdateModal_handleSubmit
  \/ updateProfile_resolved
  \/ updateProfile_rejected

AuthSpec == AuthInit /\ [][AuthNext]_vars

(***************************************************************************)
(* The title functions applied to bounded inputs.                          *)
(***************************************************************************)
TitleInit ==
  /\ tMessage \in Messages
  /\ tContext \in Contexts
  /\ tCall = "none"
  /\ tResult = Undefined
  /\ SysIdle
  /\ AuthIdle

CallSmartTitle ==
  /\ tCall = "none"
  /\ \E rnd \in 0..(RandN - 1) :
       tResult' = generateSmartChatTitle(tMessage, tContext, rnd)
  /\ tCall' = "generateSmartChatTitle"
  /\ UNCHANGED <<tMessage, tContext, sysVars, authVars>>

CallTitleFromContent ==
  /\ tCall = "none"
  /\ \E rnd \in 0..(RandN - 1) :
       tResult' = generateTitleFromContent(tMessage, rnd)
  /\ tCall' = "generateTitleFromContent"
  /\ UNCHANGED <<tMessage, tContext, sysVars, authVars>>

CallExtractTopics ==
  /\ tCall = "none"
  /\ tResult' = TopicList(extractTopics(tMessage))
  /\ tCall' = "extractTopics"
  /\ UNCHANGED <<tMessage, tContext, sysVars, authVars>>

CallExtractIndustry ==
  /\ tCall = "none"
  /\ tResult' = LET industry == extractIndustry(tMessage, tContext)
                IN  IF industry = <<>> THEN Null ELSE Chars(industry, "")
  /\ tCall' = "extractIndustry"
  /\ UNCHANGED <<tMessage, tContext, sysVars, authVars>>

TitleNext ==
  \/ CallSmartTitle
  \/ CallTitleFromContent
  \/ CallExtractTopics
  \/ CallExtractIndustry

TitleSpec == TitleInit /\ [][TitleNext]_vars

(***************************************************************************)
(* Properties of the title functions (checked under TitleSpec).            *)
(***************************************************************************)
TitlesOf(arr) == {Str(arr[i]) : i \in 1..Len(arr)}

FinanceTitles == TitlesOf(industryTemplatesOf(<<"f","i","n","a","n","c","e">>).titles)

SmartTitleCalled == tCall = "generateSmartChatTitle"

\* C4: generateSmartChatTitle returns a non-empty string for every message
\* (the empty one included) and every business context: absent, without
\* industry, or with any industry value.
C4_TitleNeverEmpty == SmartTitleCalled => IsNonEmptyString(tResult)

\* C5: for "What are the market trends in fintech?" without business context
\* generateSmartChatTitle returns one of the finance titles, whatever the
\* random choice.
C5_FintechGivesFinanceTitle ==
  (SmartTitleCalled /\ tMessage = MsgMarketTrendsFintech /\ tContext = NoContext)
    => tResult \in FinanceTitles

\* C6: whenever the detected industry has a title set in
\* titleTemplates.industry_specific, generateSmartChatTitle returns a member
\* of that set, whatever topics and capitalized words the message has.
C6_IndustryBeforeTopics ==
  SmartTitleCalled =>
    \A i \in 1..Len(industry_specific) :
      extractIndustry(tMessage, tContext) = industry_specific[i].key
        => tResult \in TitlesOf(industry_specific[i].titles)

\* C6's case: an industry with a title set, a topic and a capitalized word
\* together, and the call has returned.
C6_Witness ==
  /\ SmartTitleCalled
  /\ extractIndustry(tMessage, tContext) = <<"f","i","n","a","n","c","e">>
  /\ extractTopics(tMessage) # <<>>
  /\ companyMatch(tMessage) # <<>>
  /\ tResult \in FinanceTitles

\* C7: for "How do I compare against my competitors?" without business
\* context generateSmartChatTitle returns one of the competitor_analysis
\* titles, whatever the random choice.
C7_CompetitorsGiveCompetitorTitle ==
  (SmartTitleCalled /\ tMessage = MsgCompareCompetitors /\ tContext = NoContext)
    => tResult \in TitlesOf(titleTemplates_competitor_analysis)

C7_Witness ==
  /\ SmartTitleCalled
  /\ tMessage = MsgCompareCompetitors
  /\ tContext = NoContext
  /\ tResult \in TitlesOf(titleTemplates_competitor_analysis)

\* C8: for "business plan for Acme Corp" generateTitleFromContent returns
\* exactly "Business Planning": the content pattern wins over the significant
\* words and over generateSmartChatTitle's proper-noun extraction.
C8_BusinessPlanPattern ==
  (tCall = "generateTitleFromContent" /\ tMessage = MsgBusinessPlanAcme)
    => tResult = Str("Business Planning")

C8_Witness ==
  /\ tCall = "generateTitleFromContent"
  /\ tMessage = MsgBusinessPlanAcme
  /\ companyMatch(tMessage) = <<"A","c","m","e"," ","C","o","r","p">>
  /\ tResult = Str("Business Planning")

\* The aliases and the canonical industry each stands for.
IndustryAliasTable ==
  { [alias |-> <<"s","a","a","s">>, canonical |-> <<"t","e","c","h","n","o","l","o","g","y">>],
    [alias |-> <<"s","o","f","t","w","a","r","e">>, canonical |-> <<"t","e","c","h","n","o","l","o","g","y">>],
    [alias |-> <<"t","e","c","h">>, canonical |-> <<"t","e","c","h","n","o","l","o","g","y">>],
    [alias |-> <<"m","e","d","i","c","a","l">>, canonical |-> <<"h","e","a","l","t","h","c","a","r","e">>],
    [alias |-> <<"h","e","a","l","t","h">>, canonical |-> <<"h","e","a","l","t","h","c","a","r","e">>],
    [alias |-> <<"f","i","n","a","n","c","i","a","l">>, canonical |-> <<"f","i","n","a","n","c","e">>],
    [alias |-> <<"f","i","n","t","e","c","h">>, canonical |-> <<"f","i","n","a","n","c","e">>],
    [alias |-> <<"b","a","n","k","i","n","g">>, canonical |-> <<"f","i","n","a","n","c","e">>],
    [alias |-> <<"e","-","c","o","m","m","e","r","c","e">>, canonical |-> <<"r","e","t","a","i","l">>],
    [alias |-> <<"e","c","o","m","m","e","r","c","e">>, canonical |-> <<"r","e","t","a","i","l">>],
    [alias |-> <<"i","n","d","u","s","t","r","i","a","l">>, canonical |-> <<"m","a","n","u","f","a","c","t","u","r","i","n","g">>],
    [alias |-> <<"e","d","t","e","c","h">>, canonical |-> <<"e","d","u","c","a","t","i","o","n">>],
    [alias |-> <<"p","r","o","f","e","s","s","i","o","n","a","l"," ","s","e","r","v","i","c","e","s">>, canonical |-> <<"c","o","n","s","u","l","t","i","n","g">>] }

\* C16: for a message without business context that mentions one alias
\* keyword (alone, or after the word hello), extractIndustry returns the
\* canonical industry of that alias, for every alias of the table.
C16_AliasNormalised ==
  (tCall = "extractIndustry" /\ tContext = NoContext) =>
    \A a \in IndustryAliasTable :
      tMessage \in {a.alias, <<"h","e","l","l","o"," ">> \o a.alias}
        => tResult = Chars(a.canonical, "")

\* The five topics in their priority order, and the keywords of each.
TopicOrder ==
  <<"market_research", "competitor_analysis", "business_strategy", "startup",
    "marketing">>

TopicKeywords(topic) ==
  CASE topic = "market_research" -> {<<"m","a","r","k","e","t">>, <<"i","n","d","u","s","t","r","y">>}
    [] topic = "competitor_analysis" -> {<<"c","o","m","p","e","t","i","t","o","r">>, <<"c","o","m","p","e","t","i","t","i","o","n">>}
    [] topic = "business_strategy" -> {<<"s","t","r","a","t","e","g","y">>, <<"p","l","a","n">>}
    [] topic = "startup" -> {<<"s","t","a","r","t","u","p">>, <<"l","a","u","n","c","h">>}
    [] topic = "marketing" -> {<<"m","a","r","k","e","t","i","n","g">>, <<"b","r","a","n","d">>}

Mentions(message, topic) ==
  \E k \in TopicKeywords(topic) : includes(toLowerCase(message), k)

MentionedTopics(message) ==
  {i \in 1..Len(TopicOrder) : Mentions(message, TopicOrder[i])}

\* the first topic of the priority order that the message mentions
PrimaryTopic(message) ==
  TopicOrder[CHOOSE i \in MentionedTopics(message) :
               \A j \in MentionedTopics(message) : i <= j]

\* no industry-specific title set applies to the message and the context
NoIndustrySet ==
  industryTemplatesOf(extractIndustry(tMessage, tContext)).kind = "undefined"

\* C17: whenever no industry-specific title set applies and the message
\* mentions a topic, generateSmartChatTitle returns a member of the title set
\* of the primary topic, for each of the five topics.
C17_TopicTitleFromTopicSet ==
  (SmartTitleCalled /\ NoIndustrySet /\ MentionedTopics(tMessage) # {})
    => tResult \in TitlesOf(topicTemplatesOf(PrimaryTopic(tMessage)))

\* C18: whenever the business context has a non-empty industry,
\* extractIndustry returns that industry lower-cased, whatever industry
\* keywords the message has; only without a context industry is the result
\* null or the normalised name of a keyword the message contains.
C18_ContextIndustryPreferred ==
  tCall = "extractIndustry" =>
    IF tContext.present /\ tContext.industry # <<>>
      THEN tResult = Chars(toLowerCase(tContext.industry), "")
      ELSE \/ tResult = Null
           \/ \E i \in 1..Len(industries) :
                /\ includes(toLowerCase(tMessage), industries[i])
                /\ tResult = Chars(normalizeIndustry(industries[i]), "")

\* C18's case: the context says Finance, the message says retail, and the
\* call has returned finance.
C18_Witness ==
  /\ tCall = "extractIndustry"
  /\ tContext = Context(<<"F","i","n","a","n","c","e">>)
  /\ includes(tMessage, <<"r","e","t","a","i","l">>)
  /\ tResult = Chars(<<"f","i","n","a","n","c","e">>, "")

\* C19: extractTopics returns exactly the topics whose keywords the
\* lower-cased message contains, in the priority order (a subsequence of
\* TopicOrder), and the topic generateSmartChatTitle picks a topic title
\* for is the first of them.
C19_TopicsInPriorityOrder ==
  /\ tCall = "extractTopics" =>
       LET topics == tResult.pre
           pos(t) == CHOOSE i \in 1..Len(TopicOrder) : TopicOrder[i] = t
       IN  /\ \A i \in 1..Len(topics) : topics[i] \in Range(TopicOrder)
           /\ \A i, j \in 1..Len(topics) :
                i < j => pos(topics[i]) < pos(topics[j])
           /\ \A i \in 1..Len(TopicOrder) :
                TopicOrder[i] \in Range(topics) <=> Mentions(tMessage, TopicOrder[i])
  /\ (/\ SmartTitleCalled
      /\ NoIndustrySet
      /\ MentionedTopics(tMessage) # {}
      /\ hasTopicTemplates(PrimaryTopic(tMessage)))
       => tResult \in TitlesOf(topicTemplatesOf(PrimaryTopic(tMessage)))

\* C19's case: "Marketing plan" mentions market (inside Marketing, upper
\* case), plan and marketing, and the call has returned the three topics in
\* priority order.
C19_Witness ==
  /\ tCall = "extractTopics"
  /\ tMessage = MsgMarketingPlan
  /\ tResult = TopicList(<<"market_research", "business_strategy", "marketing">>)

\* C20: when neither an industry set nor a topic set gives the title and the
\* message has a capitalized phrase, generateSmartChatTitle returns the
\* first phrase followed by " Analysis" if the message mentions
\* competitor_analysis, else " Market Research" if it mentions
\* market_research, else " Strategy"; it returns a general_business title
\* only when the message has no capitalized phrase.
C20_ProperNounComposition ==
  (/\ SmartTitleCalled
   /\ NoIndustrySet
   /\ (MentionedTopics(tMessage) = {} \/ ~hasTopicTemplates(PrimaryTopic(tMessage))))
    => IF companyMatch(tMessage) # <<>>
         THEN tResult =
                Chars(companyMatch(tMessage),
                      IF Mentions(tMessage, "competitor_analysis") THEN " Analysis"
                      ELSE IF Mentions(tMessage, "market_research") THEN " Market Research"
                      ELSE " Strategy")
         ELSE tResult \in TitlesOf(titleTemplates_general_business)

\* C20's case: "Acme Corp" has no industry, no topic and the phrase
\* Acme Corp, and the call has returned "Acme Corp Strategy".
C20_Witness ==
  /\ SmartTitleCalled
  /\ tMessage = <<"A","c","m","e"," ","C","o","r","p">>
  /\ tContext = NoContext
  /\ tResult = Chars(<<"A","c","m","e"," ","C","o","r","p">>, " Strategy")

\* The content patterns in their order: a pattern matches when the
\* lower-cased message contains every keyword of one of its alternatives.
ContentPatterns ==
  << [any |-> {{<<"w","h","a","t">>, <<"t","r","e","n","d">>}}, title |-> "Market Trends Analysis"],
     [any |-> {{<<"w","h","o">>, <<"c","o","m","p","e","t","i","t","o","r">>}}, title |-> "Competitor Identification"],
     [any |-> {{<<"h","o","w">>, <<"g","r","o","w">>}}, title |-> "Growth Strategy"],
     [any |-> {{<<"a","n","a","l","y","z","e">>, <<"m","a","r","k","e","t">>}}, title |-> "Market Analysis"],
     [any |-> {{<<"b","u","s","i","n","e","s","s"," ","p","l","a","n">>}}, title |-> "Business Planning"],
     [any |-> {{<<"g","o","-","t","o","-","m","a","r","k","e","t">>}, {<<"g","t","m">>}}, title |-> "Go-to-Market Strategy"],
     [any |-> {{<<"p","r","i","c","i","n","g">>}}, title |-> "Pricing Strategy"],
     [any |-> {{<<"c","u","s","t","o","m","e","r">>}}, title |-> "Customer Strategy"],
     [any |-> {{<<"r","e","v","e","n","u","e">>}}, title |-> "Revenue Strategy"],
     [any |-> {{<<"f","u","n","d","i","n","g">>}, {<<"i","n","v","e","s","t","m","e","n","t">>}}, title |-> "Funding Strategy"] >>

MatchingPatterns(message) ==
  {i \in 1..Len(ContentPatterns) :
     \E alt \in ContentPatterns[i].any :
       \A k \in alt : includes(toLowerCase(message), k)}

\* C21: generateTitleFromContent returns the fixed title of the first
\* content pattern (in the order of ContentPatterns) that matches; only when
\* none matches, and the message has at least two significant words, it
\* returns the first up to three of them joined by spaces (first character
\* upper-cased); otherwise what generateSmartChatTitle returns for the
\* message without context.
C21_PatternsThenWordsThenSmart ==
  tCall = "generateTitleFromContent" =>
    LET matching == MatchingPatterns(tMessage)
        words == significantWords(tMessage)
        n == IF Len(words) < 3 THEN Len(words) ELSE 3
        title == join(SubSeq(words, 1, n))
    IN  IF matching # {}
          THEN tResult = Str(ContentPatterns[
                               CHOOSE i \in matching : \A j \in matching : i <= j].title)
        ELSE IF Len(words) >= 2
          THEN tResult = Chars(<<UpperChar(title[1])>> \o Tail(title), "")
        ELSE \E rnd \in 0..(RandN - 1) :
               tResult = generateSmartChatTitle(tMessage, NoContext, rnd)

\* C21's case: a message that matches who+competitor, how+grow and revenue,
\* and has significant words, has got the title of the first of the three.
C21_Witness ==
  /\ tCall = "generateTitleFromContent"
  /\ tMessage = <<"W","h","o"," ","a","r","e"," ","m","y"," ","c","o","m","p","e","t","i","t","o","r","s"," ","a","n","d"," ","h","o","w"," ","d","o"," ","w","e"," ","g","r","o","w"," ","r","e","v","e","n","u","e","?">>
  /\ MatchingPatterns(tMessage) = {2, 3, 9}
  /\ Len(significantWords(tMessage)) >= 2
  /\ tResult = Str("Competitor Identification")

\* C27: generateSmartChatTitle never returns "{phrase} Analysis" or
\* "{phrase} Market Research": whenever the proper-noun branch is reached
\* the message mentions neither competitor_analysis nor market_research, and
\* a title composed from a phrase ends in " Strategy".
C27_AnalysisUnreachable ==
  SmartTitleCalled =>
    /\ tResult.lit \notin {" Analysis", " Market Research"}
    /\ (tResult.kind = "string" /\ tResult.pre # <<>>) => tResult.lit = " Strategy"
    /\ (/\ NoIndustrySet
        /\ (MentionedTopics(tMessage) = {} \/ ~hasTopicTemplates(PrimaryTopic(tMessage)))
        /\ companyMatch(tMessage) # <<>>)
         => /\ ~Mentions(tMessage, "competitor_analysis")
            /\ ~Mentions(tMessage, "market_research")

\* C27's case: "Acme launch" has a topic (startup) and a capitalized phrase,
\* the proper-noun branch is reached and gives "Acme Strategy".
C27_Witness ==
  /\ SmartTitleCalled
  /\ tMessage = <<"A","c","m","e"," ","l","a","u","n","c","h">>
  /\ tContext = NoContext
  /\ extractTopics(tMessage) = <<"startup">>
  /\ tResult = Chars(<<"A","c","m","e">>, " Strategy")

(***************************************************************************)
(* Properties of the chat page and the store (checked under Spec).         *)
(***************************************************************************)
\* C1: over the sends, loads, reloads and failed sends of one tab on a
\* session, at most one rename request (chatApi.updateSession) is issued for
\* the session, and only while the session has no earlier user message.
C1_RenameRequestedOnce ==
  [][\A p \in Pages, s \in SessionIds :
       renamesIssued'[p][s] # renamesIssued[p][s]
         => renamesIssued'[p][s] <= 1 /\ ~hasUserMessage(store, s)]_vars

\* C2: when two tabs open on the same empty session each submit their first
\* message, exactly one rename takes effect: the name is the result of one
\* heuristic evaluation, not the last writer's.
C2_OneRenameTakesEffect ==
  \A s \in SessionIds :
    (\E p1, p2 \in Pages :
       p1 # p2 /\ renamesIssued[p1][s] >= 1 /\ renamesIssued[p2][s] >= 1)
      => renamesApplied[s] <= 1

TurnFailed(p) == page[p].route = "chat" /\ page[p].turn.send = "failed"

Requests == {page[p].req : p \in Pages} \cup {o.req : o \in orphans}

\* C9: a session's name is never empty: every create request carries a
\* non-empty name, every rename request a non-empty title, and every session
\* of the store has a non-empty name.
C9_NameNeverEmpty ==
  /\ \A r \in Requests :
       r.kind \in {"create", "rename"} => IsNonEmptyString(r.title)
  /\ \A s \in SessionIds : store[s].exists => IsNonEmptyString(store[s].name)

\* C9's case: a session created with a creative name and renamed since.
C9_Witness ==
  /\ \E s \in SessionIds :
       /\ renamesApplied[s] >= 1
       /\ store[s].name \notin TitlesOf(creativeTitles)

\* C10: a rejected rename request is swallowed: the sendMessage request for
\* the same message is issued all the same, and once the turn has ended the
\* list ends with an assistant message.
C10_RenameFailureSwallowed ==
  \A p \in Pages :
    (page[p].route = "chat" /\ page[p].turn.rename = "failed") =>
      /\ page[p].turn.send # "none"
      /\ page[p].pc \in {"sendMessage", "idle"}
      /\ page[p].pc = "sendMessage" =>
           /\ page[p].isSending
           /\ page[p].req = Request("send", page[p].sessionId, Undefined,
                                    page[p].turn.content)
      /\ page[p].pc = "idle" =>
           /\ ~page[p].isSending
           /\ page[p].messages[Len(page[p].messages)].role = "assistant"

C10_Witness ==
  \E p \in Pages :
    /\ page[p].route = "chat"
    /\ page[p].turn.rename = "failed"
    /\ page[p].turn.send = "ok"
    /\ hasUserMessage(store, page[p].sessionId)

\* C11: after every accepted submit the turn ends: isSending and isTyping
\* are false again and an assistant message (reply or fallback) follows the
\* user's message in the page's list, unless the page has been left or
\* reloaded meanwhile.
TurnOver(p) ==
  /\ ~page[p].isSending
  /\ ~page[p].isTyping
  /\ \/ page[p].turn = NoTurn
     \/ /\ page[p].turn.send \in {"ok", "failed"}
        /\ Len(page[p].messages) = page[p].turn.n + 2
        /\ page[p].messages[page[p].turn.n + 1].role = "user"
        /\ page[p].messages[page[p].turn.n + 2].role = "assistant"

C12_FailedLoadLeaksNothing ==
  \A p \in Pages :
    /\ page[p].loadFailed =>
         /\ page[p].route = "dashboard"
         /\ page[p].session = NoSession
         /\ page[p].messages = <<>>
    /\ (page[p].session # NoSession \/ page[p].messages # <<>>) =>
         /\ page[p].sessionId \in SessionIds
         /\ store[page[p].sessionId].exists

\* C12's case: the load has failed while the store holds a session with
\* messages.
C12_Witness ==
  \E p \in Pages, s \in SessionIds :
    /\ page[p].loadFailed
    /\ page[p].route = "dashboard"
    /\ store[s].exists
    /\ Len(store[s].messages) > 0

\* C13: after every step each session's message_count is the number of
\* messages the store lists for it, and a loadSession that succeeds shows
\* that many messages.
C13_MessageCountIsMessages ==
  [][/\ \A s \in SessionIds :
          store'[s].message_count = Len(store'[s].messages)
     /\ \A p \in Pages :
          (page[p].effect = "loadSession" /\ page'[p].effect = "none"
             /\ page'[p].route = "chat")
            => Len(page'[p].messages) = store'[page'[p].sessionId].message_count
    ]_vars

\* C13's case: a session with a full turn and the user message of a failed
\* turn, reloaded: the page shows the three stored messages.
C13_Witness ==
  \E p \in Pages :
    /\ page[p].route = "chat"
    /\ page[p].pc = "idle"
    /\ ~page[p].isLoading
    /\ page[p].turn = NoTurn
    /\ page[p].sessionId \in SessionIds
    /\ store[page[p].sessionId].message_count = 3
    /\ Len(page[p].messages) = 3

\* C14: in every state a session that has been renamed has a user message
\* stored, and every stored assistant message follows a stored user message.
C14_RenamedHasUserMessage ==
  \A s \in SessionIds :
    /\ renamesApplied[s] > 0 => hasUserMessage(store, s)
    /\ \A i \in 1..Len(store[s].messages) :
         store[s].messages[i].role = "assistant"
           => i > 1 /\ store[s].messages[i - 1].role = "user"

\* C15: after an accepted first-message submit the sendMessage request is
\* issued (or the page is left), also when chatApi.updateSession is never
\* answered.
C15_RenameNeverBlocks ==
  \A p \in LivePages :
    page[p].pc = "renameSession"
      ~> (page[p].turn = NoTurn \/ page[p].turn.send # "none")

(***************************************************************************)
(* Properties of the submit guard and of the page's list (checked under    *)
(* HistorySpec).                                                           *)
(***************************************************************************)
\* The step leaves the mounted chat page of tab p mounted: a page that
\* mounts afresh shows its spinner first.
SamePage(p) ==
  /\ page[p].route = "chat"
  /\ page'[p].route = "chat"
  /\ ~page[p].isLoading
  /\ ~page'[p].isLoading

\* The guard of handleSendMessage turns a submit away.
SubmitTurnedAway(pg) ==
  \/ trim(pg.newMessage) = <<>>
  \/ pg.isSending
  \/ pg.sessionId = 0

\* C22: a turn never has more than one sendMessage request issued for it,
\* and has exactly one once the request is out, whether it then succeeds or
\* fails; from a page whose guard turns submits away no step starts a turn
\* or issues a request of one.
C22_OneSendPerSubmit ==
  [][\A p \in Pages :
       /\ page'[p].turn.sends <= 1
       /\ (page'[p].turn.send # "none") <=> (page'[p].turn.sends = 1)
       /\ (SamePage(p) /\ SubmitTurnedAway(page[p])) =>
            /\ page[p].isSending \/ ~page'[p].isSending
            /\ page[p].pc = "idle" =>
                 /\ page'[p].pc = "idle"
                 /\ page'[p].turn = page[p].turn
                 /\ page'[p].req.kind \notin {"rename", "send"}
                 /\ page'[p].messages = page[p].messages
                      \/ page[p].effect = "loadSession"
                 /\ renamesIssued'[p] = renamesIssued[p]
    ]_vars

\* C22's case: a turn whose rename and whose send both failed has ended with
\* one sendMessage request issued, and the page turns submits away again.
C22_Witness ==
  \E p \in Pages :
    /\ page[p].route = "chat"
    /\ page[p].pc = "idle"
    /\ page[p].turn.rename = "failed"
    /\ page[p].turn.send = "failed"
    /\ page[p].turn.sends = 1
    /\ SubmitTurnedAway(page[p])

\* C24: a mounted ChatPage issues at most one chatApi.updateSession request,
\* and once that request has been answered or rejected hasRenamedSession is
\* true and stays true, whatever session the page loads afterwards.
C24_OneRenamePerPage ==
  \A p \in Pages :
    page[p].route = "chat" =>
      /\ page[p].renames <= 1
      /\ (page[p].renames = 1 /\ page[p].pc # "renameSession")
           => page[p].hasRenamedSession

\* C24's case: the page has renamed once, its route has changed and a load
\* has emptied its list; the next submit finds the list empty and a session
\* loaded, and issues sendMessage without a rename.
C24_Witness ==
  \E p \in Pages :
    /\ page[p].route = "chat"
    /\ page[p].renames = 1
    /\ page[p].hasRenamedSession
    /\ page[p].pc = "sendMessage"
    /\ page[p].turn.n = 0
    /\ page[p].turn.rename = "none"

\* C25: a submit is accepted only while no turn of the page is in progress,
\* and isSending is set for as long as a request of the turn is in flight.
C25_OneTurnInProgress ==
  [][\A p \in Pages :
       /\ (SamePage(p) /\ page'[p].turn # page[p].turn
              /\ page'[p].turn.send \notin {"ok", "failed"}
              /\ page'[p].turn.rename \notin {"ok", "failed"}) =>
            /\ ~page[p].isSending
            /\ page[p].pc = "idle"
            /\ page[p].req.kind \notin {"rename", "send"}
       /\ (page'[p].route = "chat"
              /\ page'[p].pc \in {"renameSession", "sendMessage"}) =>
            page'[p].isSending
    ]_vars

\* C25's case: a turn is in progress and the input holds a message (a load
\* has emptied the list and a quick prompt was picked), so that only
\* isSending turns the submit away.
C25_Witness ==
  \E p \in Pages :
    /\ page[p].route = "chat"
    /\ page[p].pc = "sendMessage"
    /\ page[p].isSending
    /\ trim(page[p].newMessage) # <<>>
    /\ page[p].sessionId # 0

\* C26: while a turn of the page is in progress every step keeps the
\* messages the list holds, in their order, and a turn that ends has
\* extended the list it started from by exactly its user message and one
\* assistant message.
C26_TurnAppendsTwo ==
  [][\A p \in Pages :
       /\ (SamePage(p) /\ page[p].isSending) =>
            /\ Len(page'[p].messages) >= Len(page[p].messages)
            /\ SubSeq(page'[p].messages, 1, Len(page[p].messages))
                 = page[p].messages
       /\ (SamePage(p) /\ page[p].pc = "sendMessage" /\ page'[p].pc = "idle") =>
            /\ Len(page'[p].messages) = page'[p].turn.n + 2
            /\ page'[p].messages[page'[p].turn.n + 1]
                 = Message("user", Chars(page'[p].turn.content, ""))
            /\ page'[p].messages[page'[p].turn.n + 2].role = "assistant"
    ]_vars

(***************************************************************************)
(* Properties of the auth context and the route guard (checked under       *)
(* AuthSpec).                                                              *)
(***************************************************************************)
\* C23: whenever the auth context reports isAuthenticated, localStorage
\* holds a token.
C23_AuthenticatedHasToken ==
  isAuthenticated(auth) => IsNonEmptyString(localStorage.token)

\* C28: DashboardPage and ChatPage are rendered only for an authenticated
\* user, LoginPage and RegisterPage only for none, nothing but the spinner
\* while isLoading, and once loaded the location rests on the route of the
\* page rendered, every other path having been redirected.
C28_RouteGuard ==
  /\ browser.shown \in {"DashboardPage", "ChatPage"} => isAuthenticated(auth)
  /\ browser.shown \in {"LoginPage", "RegisterPage"} => ~isAuthenticated(auth)
  /\ auth.isLoading <=> browser.shown = "LoadingSpinner"
  /\ ~auth.isLoading =>
       /\ browser.path \in {"/login", "/register", "/dashboard", "/chat"}
       /\ browser.path = "/login" <=> browser.shown = "LoginPage"
       /\ browser.path = "/register" <=> browser.shown = "RegisterPage"
       /\ browser.path = "/dashboard" <=> browser.shown = "DashboardPage"
       /\ browser.path = "/chat" <=> browser.shown = "ChatPage"
       /\ isAuthenticated(auth) <=> browser.path \in {"/dashboard", "/chat"}

\* C28's case: the user has signed out of the dashboard with a profile
\* update in flight and is shown the login page.
C28_Witness ==
  /\ browser.shown = "LoginPage"
  /\ browser.path = "/login"
  /\ browser.profile = "pending"
  /\ ~isAuthenticated(auth)

\* C29: the step in which authApi.login rejects leaves user and the two
\* localStorage items as they are; login throws the server's detail or
\* 'Login failed', and the login page that made the call shows that message
\* and stays at /login.
C29_FailedLoginChangesNothing ==
  [][(browser.req = "login" /\ browser'.req = "none"
        /\ browser'.thrown # Undefined) =>
       /\ auth' = auth
       /\ localStorage' = localStorage
       /\ browser'.thrown = IF IsNonEmptyString(browser'.detail)
                              THEN browser'.detail
                              ELSE Str("Login failed")
       /\ browser'.path = browser.path
       /\ browser'.shown = browser.shown
       /\ browser.reqLive =>
            /\ browser'.shown = "LoginPage"
            /\ browser'.error = browser'.thrown
    ]_vars

\* C29's case: a login was rejected with the server's detail while
\* localStorage held a token without a user item; the page shows the detail.
C29_Witness ==
  /\ browser.shown = "LoginPage"
  /\ browser.req = "none"
  /\ IsNonEmptyString(browser.detail)
  /\ browser.error = browser.detail
  /\ IsNonEmptyString(localStorage.token)
  /\ ~isAuthenticated(auth)

\* C30: the mount-time check restores the user if and only if localStorage
\* holds a token and a user item that parses as JSON, removes both items
\* when the user item does not parse, and leaves isLoading false.
C30_RestoreIffTokenAndJSON ==
  [][(auth.isLoading /\ <<auth, localStorage>>' # <<auth, localStorage>>) =>
       LET held == localStorage.token # Null /\ localStorage.user # Null
       IN  /\ ~auth'.isLoading
           /\ isAuthenticated(auth') <=> (held /\ JSON_parses(localStorage.user))
           /\ (held /\ ~JSON_parses(localStorage.user)) =>
                /\ localStorage' = NoItems
                /\ auth'.user = Null
    ]_vars

====
